---- MODULE Spec2Model ----
(***************************************************************************)
(* Model of the polygon triangulation module (curves/Triangulation.js,     *)
(* kept as src/unnamed/part_001): triangulatePolygon, createLinkedList,     *)
(* simplifyPoints, triangulateLinkedList, isValidEar, processHoles,         *)
(* flattenPolygonData and calculateTriangulationQuality.                    *)
(*                                                                         *)
(* A call of triangulatePolygon is a record `call`; every loop iteration   *)
(* of the source is one action.  Node references are indices into the      *)
(* arena `nodes` (0 is null/undefined).  JavaScript arrays are 0-based:    *)
(* At(data, k) reads data[k].                                              *)
(***************************************************************************)
EXTENDS Integers, Sequences, FiniteSets, TLC

VARIABLES call, ref, input,    \* a triangulatePolygon call, the call it is compared with, its input
          quality,             \* a calculateTriangulationQuality call
          renderer,            \* a WebGLRenderer object
          color,               \* a DSRTColor serialisation round trip
          texture,             \* a TextureUtilities.isCompressedFormat call
          index                \* a ring with its Z-order list, or a computeZOrder call

triVars == <<call, ref, input>>
libVars == <<quality, renderer, color, texture, index>>
vars == <<call, ref, input, quality, renderer, color, texture, index>>

\* Bounds of the enumerated inputs: grid coordinates 0..MaxCoord, at most
\* MaxVerts vertices per enumerated polygon.
MaxCoord == 1
MaxVerts == 4

\* triangulatePolygon: "if (vertices.length > 80 * dimensions)"
IndexThreshold == 80
\* triangulatePolygon: "32767 / scaleFactor"
ZRange == 32767

Min2(a, b) == IF a < b THEN a ELSE b
Max2(a, b) == IF a > b THEN a ELSE b
Abs(a) == IF a < 0 THEN -a ELSE a

At(data, k) == data[k + 1]

(***************************************************************************)
(* Nodes and the primary ring                                              *)
(***************************************************************************)
createNode(i, x, y) ==
    [i |-> i, x |-> x, y |-> y, prev |-> 0, next |-> 0,
     z |-> 0, prevZ |-> 0, nextZ |-> 0, steiner |-> FALSE]

\* addNode(i, x, y, last): the arena after the call; the new node is the last
\* element of the arena.
addNode(nodes, i, x, y, last) ==
    LET id == Len(nodes) + 1
        node == createNode(i, x, y)
    IN  IF last = 0
        THEN Append(nodes, [node EXCEPT !.prev = id, !.next = id])
        ELSE LET ln == nodes[last].next
                 n0 == Append(nodes, [node EXCEPT !.next = ln, !.prev = last])
                 n1 == [n0 EXCEPT ![ln].prev = id]
             IN  [n1 EXCEPT ![last].next = id]

\* Mutant of removeNode: "node.next.prev = node.prev" is left out.
removeNodeKeepsPrev(nodes, node) ==
    LET n2 == [nodes EXCEPT ![nodes[node].prev].next = nodes[node].next]
        n3 == IF n2[node].prevZ # 0
              THEN [n2 EXCEPT ![n2[node].prevZ].nextZ = n2[node].nextZ]
              ELSE n2
    IN  IF n3[node].nextZ # 0
        THEN [n3 EXCEPT ![n3[node].nextZ].prevZ = n3[node].prevZ]
        ELSE n3

\* Mutant of removeNode: "node.prevZ.nextZ = node.nextZ" is left out.
removeNodeKeepsNextZ(nodes, node) ==
    LET n1 == [nodes EXCEPT ![nodes[node].next].prev = nodes[node].prev]
        n2 == [n1 EXCEPT ![n1[node].prev].next = n1[node].next]
    IN  IF n2[node].nextZ # 0
        THEN [n2 EXCEPT ![n2[node].nextZ].prevZ = n2[node].prevZ]
        ELSE n2

\* removeNode(node): the four assignments in program order.
removeNode(nodes, node) ==
    LET n1 == [nodes EXCEPT ![nodes[node].next].prev = nodes[node].prev]
        n2 == [n1 EXCEPT ![n1[node].prev].next = n1[node].next]
        n3 == IF n2[node].prevZ # 0
              THEN [n2 EXCEPT ![n2[node].prevZ].nextZ = n2[node].nextZ]
              ELSE n2
    IN  IF n3[node].nextZ # 0
        THEN [n3 EXCEPT ![n3[node].nextZ].prevZ = n3[node].prevZ]
        ELSE n3

pointsEqual(nodes, a, b) ==
    nodes[a].x = nodes[b].x /\ nodes[a].y = nodes[b].y

triangleArea(nodes, p, q, r) ==
    (nodes[q].y - nodes[p].y) * (nodes[r].x - nodes[q].x)
  - (nodes[q].x - nodes[p].x) * (nodes[r].y - nodes[q].y)

\* Mutant of pointInTriangle: the three comparisons are strict.
pointInTriangleStrict(ax, ay, bx, by, cx, cy, px, py) ==
    /\ (cx - px) * (ay - py) > (ax - px) * (cy - py)
    /\ (ax - px) * (by - py) > (bx - px) * (ay - py)
    /\ (bx - px) * (cy - py) > (cx - px) * (by - py)

pointInTriangle(ax, ay, bx, by, cx, cy, px, py) ==
    /\ (cx - px) * (ay - py) >= (ax - px) * (cy - py)
    /\ (ax - px) * (by - py) >= (bx - px) * (ay - py)
    /\ (bx - px) * (cy - py) >= (cx - px) * (by - py)

pointInTriangleExclusive(ax, ay, bx, by, cx, cy, px, py) ==
    /\ ~(ax = px /\ ay = py)
    /\ pointInTriangle(ax, ay, bx, by, cx, cy, px, py)

\* The sum of s[lo..hi]; integer addition is associative, so the halves are
\* summed separately to keep the evaluation shallow on long buffers.
RECURSIVE SumSeq(_, _, _)
SumSeq(s, lo, hi) ==
    IF lo > hi THEN 0
    ELSE IF lo = hi THEN s[lo]
    ELSE SumSeq(s, lo, (lo + hi) \div 2) + SumSeq(s, (lo + hi) \div 2 + 1, hi)

\* The summand of line 436 for the vertex at offset i and its predecessor j.
SignedAreaTerm(data, i, j) ==
    (At(data, j) - At(data, i)) * (At(data, i + 1) + At(data, j + 1))

\* The loop of lines 435-438: iteration k is at i = start + (k - 1) * dim with
\* j = end - dim in the first iteration and the previous i afterwards.
calculateSignedArea(data, start, end, dim) ==
    LET m == IF end > start THEN (end - start + dim - 1) \div dim ELSE 0
        terms == [k \in 1..m |->
                    SignedAreaTerm(data, start + (k - 1) * dim,
                                   IF k = 1 THEN end - dim ELSE start + (k - 2) * dim)]
    IN  SumSeq(terms, 1, m)

\* The node reached from n by j steps of the link function f (f composed
\* with itself by halving j, so that long rings stay shallow to evaluate).
RECURSIVE Iter(_, _, _)
Iter(f, j, n) ==
    IF j = 0 THEN n
    ELSE IF j % 2 = 1 THEN f[Iter(f, j - 1, n)]
    ELSE Iter([m \in DOMAIN f |-> f[f[m]]], j \div 2, n)

NextOf(nodes) == [m \in 1..Len(nodes) |-> nodes[m].next]
PrevOf(nodes) == [m \in 1..Len(nodes) |-> nodes[m].prev]

\* The nodes reached from h through next, and through prev.
RingNodes(nodes, h) == {Iter(NextOf(nodes), j, h) : j \in 0..(Len(nodes) - 1)}
RingNodesBack(nodes, h) == {Iter(PrevOf(nodes), j, h) : j \in 0..(Len(nodes) - 1)}

(***************************************************************************)
(* isValidEar: the scan "while (p !== a)" from c.next                       *)
(***************************************************************************)
\* One candidate p of the scan: the condition of the "return false".
EarBlockedBy(nodes, a, b, c, p) ==
    LET ax == nodes[a].x  ay == nodes[a].y
        bx == nodes[b].x  by == nodes[b].y
        cx == nodes[c].x  cy == nodes[c].y
        px == nodes[p].x  py == nodes[p].y
    IN  /\ px >= Min2(ax, Min2(bx, cx)) /\ px <= Max2(ax, Max2(bx, cx))
        /\ py >= Min2(ay, Min2(by, cy)) /\ py <= Max2(ay, Max2(by, cy))
        /\ pointInTriangleExclusive(ax, ay, bx, by, cx, cy, px, py)
        /\ triangleArea(nodes, nodes[p].prev, p, nodes[p].next) >= 0

RECURSIVE EarScan(_, _, _, _, _)
EarScan(nodes, a, b, c, p) ==
    IF p = a THEN TRUE
    ELSE IF EarBlockedBy(nodes, a, b, c, p) THEN FALSE
    ELSE EarScan(nodes, a, b, c, nodes[p].next)

\* Mutant of isValidEar: the area test of line 158 is ">" instead of ">=".
isValidEarAcceptsFlat(nodes, ear) ==
    LET a == nodes[ear].prev
        c == nodes[ear].next
    IN  IF triangleArea(nodes, a, ear, c) > 0 THEN FALSE
        ELSE EarScan(nodes, a, ear, c, nodes[c].next)

isValidEar(nodes, ear) ==
    LET a == nodes[ear].prev
        c == nodes[ear].next
    IN  IF triangleArea(nodes, a, ear, c) >= 0 THEN FALSE
        ELSE EarScan(nodes, a, ear, c, nodes[c].next)

(***************************************************************************)
(* Spatial index: computeZOrder and isValidEarHashed                       *)
(***************************************************************************)
RECURSIVE BitAnd(_, _)
BitAnd(a, b) ==
    IF a = 0 \/ b = 0 THEN 0
    ELSE (a % 2) * (b % 2) + 2 * BitAnd(a \div 2, b \div 2)

RECURSIVE BitOr(_, _)
BitOr(a, b) ==
    IF a = 0 THEN b
    ELSE IF b = 0 THEN a
    ELSE Max2(a % 2, b % 2) + 2 * BitOr(a \div 2, b \div 2)

\* Mutant of SpreadBits: the last shift-and-mask line (<< 1, 0x55555555) is
\* left out.
SpreadBitsThreeLines(v) ==
    LET v1 == BitAnd(BitOr(v, v * 256), 16711935)
        v2 == BitAnd(BitOr(v1, v1 * 16), 252645135)
    IN  BitAnd(BitOr(v2, v2 * 4), 858993459)

\* The four shift-and-mask lines of computeZOrder for one coordinate
\* (masks 0x00FF00FF, 0x0F0F0F0F, 0x33333333, 0x55555555).
SpreadBits(v) ==
    LET v1 == BitAnd(BitOr(v, v * 256), 16711935)
        v2 == BitAnd(BitOr(v1, v1 * 16), 252645135)
        v3 == BitAnd(BitOr(v2, v2 * 4), 858993459)
    IN  BitAnd(BitOr(v3, v3 * 2), 1431655765)

\* "(x - minX) * scale | 0" with scale = 32767 / size: truncation of the
\* product, computed here on the exact quotient.
Quantize(x, min, size) == ((x - min) * ZRange) \div size

computeZOrder(x, y, minX, minY, size) ==
    BitOr(SpreadBits(Quantize(x, minX, size)),
          2 * SpreadBits(Quantize(y, minY, size)))

\* The test applied to p or n in each of the three loops of isValidEarHashed.
HashedBlockedBy(nodes, a, b, c, p) ==
    p # a /\ p # c /\ EarBlockedBy(nodes, a, b, c, p)

\* The second loop: "while (p && p.z >= minZ)".
RECURSIVE ScanPrevZ(_, _, _, _, _, _)
ScanPrevZ(nodes, a, b, c, p, minZ) ==
    IF p = 0 \/ nodes[p].z < minZ THEN TRUE
    ELSE IF HashedBlockedBy(nodes, a, b, c, p) THEN FALSE
    ELSE ScanPrevZ(nodes, a, b, c, nodes[p].prevZ, minZ)

\* Mutant of ScanNextZ: the walk stops at the first key that is not below
\* maxZ ("n.z < maxZ").
RECURSIVE ScanNextZBelowMax(_, _, _, _, _, _)
ScanNextZBelowMax(nodes, a, b, c, n, maxZ) ==
    IF n = 0 \/ nodes[n].z >= maxZ THEN TRUE
    ELSE IF HashedBlockedBy(nodes, a, b, c, n) THEN FALSE
    ELSE ScanNextZBelowMax(nodes, a, b, c, nodes[n].nextZ, maxZ)

\* The third loop: "while (n && n.z <= maxZ)".
RECURSIVE ScanNextZ(_, _, _, _, _, _)
ScanNextZ(nodes, a, b, c, n, maxZ) ==
    IF n = 0 \/ nodes[n].z > maxZ THEN TRUE
    ELSE IF HashedBlockedBy(nodes, a, b, c, n) THEN FALSE
    ELSE ScanNextZ(nodes, a, b, c, nodes[n].nextZ, maxZ)

\* The first loop, which walks both directions at once, then the other two.
RECURSIVE ScanBothZ(_, _, _, _, _, _, _, _)
ScanBothZ(nodes, a, b, c, p, n, minZ, maxZ) ==
    IF p # 0 /\ nodes[p].z >= minZ /\ n # 0 /\ nodes[n].z <= maxZ
    THEN IF HashedBlockedBy(nodes, a, b, c, p) THEN FALSE
         ELSE IF HashedBlockedBy(nodes, a, b, c, n) THEN FALSE
         ELSE ScanBothZ(nodes, a, b, c, nodes[p].prevZ, nodes[n].nextZ, minZ, maxZ)
    ELSE ScanPrevZ(nodes, a, b, c, p, minZ) /\ ScanNextZ(nodes, a, b, c, n, maxZ)

isValidEarHashed(nodes, ear, minX, minY, size) ==
    LET a == nodes[ear].prev
        c == nodes[ear].next
        xs == {nodes[a].x, nodes[ear].x, nodes[c].x}
        ys == {nodes[a].y, nodes[ear].y, nodes[c].y}
        minTX == CHOOSE v \in xs : \A w \in xs : v <= w
        maxTX == CHOOSE v \in xs : \A w \in xs : v >= w
        minTY == CHOOSE v \in ys : \A w \in ys : v <= w
        maxTY == CHOOSE v \in ys : \A w \in ys : v >= w
    IN  IF triangleArea(nodes, a, ear, c) >= 0 THEN FALSE
        ELSE ScanBothZ(nodes, a, ear, c, nodes[ear].prevZ, nodes[ear].nextZ,
                       computeZOrder(minTX, minTY, minX, minY, size),
                       computeZOrder(maxTX, maxTY, minX, minY, size))

(***************************************************************************)
(* One call of triangulatePolygon                                          *)
(***************************************************************************)
\* The state of a call before its first statement.  size = 0 stands for a
\* falsy scaleFactor (undefined below the threshold, 0 for a degenerate box).
NewCall(vertices, holeIndices, dimensions) ==
    [vertices |-> vertices, holeIndices |-> holeIndices, dimensions |-> dimensions,
     pc |-> "start", error |-> "none",
     nodes |-> <<>>, triangles |-> <<>>, outerNode |-> 0,
     ctx |-> "outer", listStart |-> 0, listEnd |-> 0, forward |-> TRUE,
     i |-> 0, last |-> 0,
     minX |-> 0, minY |-> 0, size |-> 0,
     ear |-> 0, stopPoint |-> 0, pass |-> 0,
     current |-> 0, end |-> 0]

Terminated(c) == c.pc \in {"done", "threw"}

hasHoles(c) == Len(c.holeIndices) > 0

Throw(c, what) == [c EXCEPT !.pc = "threw", !.error = what]

\* createLinkedList, up to the choice of the direction (line 60).
\* Mutant of BeginLinkedList: the range is always threaded forward.
BeginLinkedListForward(c, start, end, clockwise, ctx) ==
    [c EXCEPT !.pc = "build", !.ctx = ctx, !.listStart = start, !.listEnd = end,
              !.forward = TRUE, !.last = 0, !.i = start]

BeginLinkedList(c, start, end, clockwise, ctx) ==
    LET fwd == (clockwise = (calculateSignedArea(c.vertices, start, end, c.dimensions) > 0))
    IN  [c EXCEPT !.pc = "build", !.ctx = ctx, !.listStart = start, !.listEnd = end,
                  !.forward = fwd, !.last = 0,
                  !.i = IF fwd THEN start ELSE end - c.dimensions]

\* triangulatePolygon, lines 17-19.
triangulatePolygonEnter(c) ==
    LET outerLength == IF hasHoles(c) THEN c.holeIndices[1] * c.dimensions
                       ELSE Len(c.vertices)
    IN  BeginLinkedList(c, 0, outerLength, TRUE, "outer")

\* The loop conditions of createLinkedList (lines 61 and 65).
ListLoopCond(c) ==
    IF c.forward THEN c.i < c.listEnd ELSE c.i >= c.listStart

\* Mutant of NodeOrdinal: the raw buffer offset instead of the ordinal.
NodeOrdinalOffset(i, dim) == i

\* The ordinal stored in a node: "i / dim | 0".
NodeOrdinal(i, dim) == i \div dim

\* Mutant of createLinkedListStep: y read from the last coordinate of the
\* vertex instead of the second.
createLinkedListStepLastCoord(c) ==
    LET ns == addNode(c.nodes, c.i \div c.dimensions,
                      At(c.vertices, c.i), At(c.vertices, c.i + c.dimensions - 1), c.last)
    IN  [c EXCEPT !.nodes = ns, !.last = Len(ns),
                  !.i = IF c.forward THEN c.i + c.dimensions ELSE c.i - c.dimensions]

\* One iteration of either loop of createLinkedList.
createLinkedListStep(c) ==
    LET ns == addNode(c.nodes, NodeOrdinal(c.i, c.dimensions),
                      At(c.vertices, c.i), At(c.vertices, c.i + 1), c.last)
    IN  [c EXCEPT !.nodes = ns, !.last = Len(ns),
                  !.i = IF c.forward THEN c.i + c.dimensions ELSE c.i - c.dimensions]

\* Mutant of createLinkedListReturn: "last = last.next" (line 72) is left out.
createLinkedListReturnKeepsLast(c) ==
    LET dup == c.last # 0 /\ pointsEqual(c.nodes, c.last, c.nodes[c.last].next)
        ns == IF dup THEN removeNode(c.nodes, c.last) ELSE c.nodes
    IN  [c EXCEPT !.nodes = ns,
                  !.pc = IF c.ctx = "outer" THEN "outerBuilt" ELSE "holeBuilt"]

\* createLinkedList, lines 70-75.
createLinkedListReturn(c) ==
    LET dup == c.last # 0 /\ pointsEqual(c.nodes, c.last, c.nodes[c.last].next)
        ns == IF dup THEN removeNode(c.nodes, c.last) ELSE c.nodes
    IN  [c EXCEPT !.nodes = ns,
                  !.last = IF dup THEN ns[c.last].next ELSE c.last,
                  !.pc = IF c.ctx = "outer" THEN "outerBuilt" ELSE "holeBuilt"]

\* The bounding box loop of triangulatePolygon (lines 30-42), as the extreme
\* values of the outer range.
OuterXs(c, outerLength) ==
    {At(c.vertices, k) : k \in {j \in 0..(outerLength - 1) : j % c.dimensions = 0}}
OuterYs(c, outerLength) ==
    {At(c.vertices, k + 1) : k \in {j \in 0..(outerLength - 1) : j % c.dimensions = 0}}
SetMin(S) == CHOOSE v \in S : \A w \in S : v <= w
SetMax(S) == CHOOSE v \in S : \A w \in S : v >= w

\* triangulateLinkedList, lines 114-118.  buildSpatialIndex is not defined
\* in the module, so evaluating the call raises a ReferenceError.
triangulateLinkedListEnter(c, ear, pass) ==
    IF ear = 0 THEN [c EXCEPT !.pc = "done"]
    ELSE IF pass = 0 /\ c.size # 0 THEN Throw(c, "ReferenceError: buildSpatialIndex")
    ELSE [c EXCEPT !.pc = "loop", !.ear = ear, !.stopPoint = ear, !.pass = pass]

\* Mutant of triangulatePolygonOuterBuilt: holes are processed before the
\* test for a degenerate outer ring (lines 22 and 26 swapped).
triangulatePolygonHolesFirst(c) ==
    LET outerNode == c.last
        c1 == [c EXCEPT !.outerNode = outerNode]
    IN  IF hasHoles(c)
        THEN BeginLinkedList(c1, c.holeIndices[1] * c.dimensions,
                             IF Len(c.holeIndices) > 1
                             THEN c.holeIndices[2] * c.dimensions
                             ELSE Len(c.vertices),
                             FALSE, "hole")
        ELSE IF outerNode = 0 \/ c.nodes[outerNode].next = c.nodes[outerNode].prev
        THEN [c1 EXCEPT !.pc = "done"]
        ELSE triangulateLinkedListEnter(c1, outerNode, 0)

\* triangulatePolygon, lines 20-48, once the outer ring is built.
triangulatePolygonOuterBuilt(c) ==
    LET outerNode == c.last
        c1 == [c EXCEPT !.outerNode = outerNode]
    IN  IF outerNode = 0 \/ c.nodes[outerNode].next = c.nodes[outerNode].prev
        THEN [c1 EXCEPT !.pc = "done"]
        ELSE IF hasHoles(c)
        THEN \* processHoles, first iteration, lines 245-247
             BeginLinkedList(c1, c.holeIndices[1] * c.dimensions,
                             IF Len(c.holeIndices) > 1
                             THEN c.holeIndices[2] * c.dimensions
                             ELSE Len(c.vertices),
                             FALSE, "hole")
        ELSE IF Len(c.vertices) > IndexThreshold * c.dimensions
        THEN LET xs == OuterXs(c, Len(c.vertices))
                 ys == OuterYs(c, Len(c.vertices))
                 sz == Max2(SetMax(xs) - SetMin(xs), SetMax(ys) - SetMin(ys))
             IN  triangulateLinkedListEnter(
                     [c1 EXCEPT !.minX = SetMin(xs), !.minY = SetMin(ys), !.size = sz],
                     outerNode, 0)
        ELSE triangulateLinkedListEnter(c1, outerNode, 0)

\* processHoles, lines 248-249, once the first hole ring is built: reading
\* list.next of an empty range's undefined list raises a TypeError; otherwise
\* findLeftmost is not defined in the module and raises a ReferenceError.
processHolesHoleBuilt(c) ==
    IF c.last = 0 THEN Throw(c, "TypeError: list is undefined")
    ELSE LET list == c.last
             ns == IF c.nodes[list].next = list
                   THEN [c.nodes EXCEPT ![list].steiner = TRUE]
                   ELSE c.nodes
         IN  Throw([c EXCEPT !.nodes = ns], "ReferenceError: findLeftmost")

\* The ear test of line 124.
EarTest(c) ==
    IF c.size # 0 THEN isValidEarHashed(c.nodes, c.ear, c.minX, c.minY, c.size)
    ELSE isValidEar(c.nodes, c.ear)

\* Line 120: the loop condition fails and the call (and every caller, which
\* breaks after its recursive call) returns.
RingExhaustedStep(c) == [c EXCEPT !.pc = "done"]

\* Mutant of ClipEarStep: "ear = next.next" runs before the push of lines
\* 125-127, which reads ear.i off the new ear.
ClipEarStepPushesAfterAdvance(c) ==
    LET prev == c.nodes[c.ear].prev
        next == c.nodes[c.ear].next
        ns == removeNode(c.nodes, c.ear)
    IN  [c EXCEPT !.triangles = c.triangles
                       \o <<c.nodes[prev].i, ns[ns[next].next].i, c.nodes[next].i>>,
                  !.nodes = ns,
                  !.ear = ns[next].next,
                  !.stopPoint = ns[next].next]

\* Mutant of ClipEarStep: removeNode(ear) of line 128 is left out.
ClipEarStepKeepsNode(c) ==
    LET prev == c.nodes[c.ear].prev
        next == c.nodes[c.ear].next
    IN  [c EXCEPT !.triangles = c.triangles
                       \o <<c.nodes[prev].i, c.nodes[c.ear].i, c.nodes[next].i>>,
                  !.ear = c.nodes[next].next,
                  !.stopPoint = c.nodes[next].next]

\* Mutant of ClipEarStep: the scan resumes at next instead of next.next.
ClipEarStepResumeNext(c) ==
    LET prev == c.nodes[c.ear].prev
        next == c.nodes[c.ear].next
        ns == removeNode(c.nodes, c.ear)
    IN  [c EXCEPT !.triangles = c.triangles
                       \o <<c.nodes[prev].i, c.nodes[c.ear].i, c.nodes[next].i>>,
                  !.nodes = ns,
                  !.ear = next,
                  !.stopPoint = next]

\* Lines 125-130.
ClipEarStep(c) ==
    LET prev == c.nodes[c.ear].prev
        next == c.nodes[c.ear].next
        ns == removeNode(c.nodes, c.ear)
    IN  [c EXCEPT !.triangles = c.triangles
                       \o <<c.nodes[prev].i, c.nodes[c.ear].i, c.nodes[next].i>>,
                  !.nodes = ns,
                  !.ear = ns[next].next,
                  !.stopPoint = ns[next].next]

\* Line 133, when the scan has not come back to stopPoint.
SkipEarStep(c) == [c EXCEPT !.ear = c.nodes[c.ear].next]

\* Lines 135-144.  Pass 0 starts simplifyPoints(ear) (lines 83-87).  In pass 1
\* the callee resolveLocalIntersections is evaluated before its arguments and
\* is not defined in the module, and likewise splitAndTriangulate in pass 2.
StalledStep(c) ==
    LET ear == c.nodes[c.ear].next
    IN  IF c.pass = 0
        THEN [c EXCEPT !.pc = "simplify", !.ear = ear, !.current = ear, !.end = ear]
        ELSE IF c.pass = 1
        THEN Throw([c EXCEPT !.ear = ear], "ReferenceError: resolveLocalIntersections")
        ELSE IF c.pass = 2
        THEN Throw([c EXCEPT !.ear = ear], "ReferenceError: splitAndTriangulate")
        ELSE [c EXCEPT !.pc = "done", !.ear = ear]

\* Mutant of SimplifyRemoves: the tests of lines 93-94 are left out and every
\* node that is not steiner is removed.
SimplifyRemovesEveryNode(c) == ~c.nodes[c.current].steiner

\* Mutant of SimplifyRemoves: the collinearity test of line 94 is left out.
SimplifyRemovesOnlyDuplicates(c) ==
    /\ ~c.nodes[c.current].steiner
    /\ pointsEqual(c.nodes, c.current, c.nodes[c.current].next)

\* The condition of line 92-94.
SimplifyRemoves(c) ==
    /\ ~c.nodes[c.current].steiner
    /\ IF pointsEqual(c.nodes, c.current, c.nodes[c.current].next) THEN TRUE
       ELSE triangleArea(c.nodes, c.nodes[c.current].prev, c.current,
                         c.nodes[c.current].next) = 0

\* Lines 96-99 and the loop condition; simplifyPoints returns `end` to line
\* 137, which enters pass 1.
SimplifyRemoveStep(c) ==
    LET ns == removeNode(c.nodes, c.current)
        cur == ns[c.current].prev
        c1 == [c EXCEPT !.nodes = ns, !.current = cur, !.end = cur]
    IN  IF cur = ns[cur].next
        THEN triangulateLinkedListEnter(c1, cur, 1)
        ELSE c1

\* Mutant of SimplifyKeepStep: the simplified ring is handed back to pass 0
\* instead of pass 1, so a ring that stalls again is simplified again.
SimplifyKeepStepSamePass(c) ==
    LET cur == c.nodes[c.current].next
        c1 == [c EXCEPT !.current = cur]
    IN  IF cur # c.end THEN c1
        ELSE triangulateLinkedListEnter(c1, c.end, 0)

\* Line 102 and the loop condition (repeat is false).
SimplifyKeepStep(c) ==
    LET cur == c.nodes[c.current].next
        c1 == [c EXCEPT !.current = cur]
    IN  IF cur # c.end THEN c1
        ELSE triangulateLinkedListEnter(c1, c.end, 1)

\* The statement a call executes next.
StepCall(c) ==
    CASE c.pc = "start" -> triangulatePolygonEnter(c)
      [] c.pc = "build" -> IF ListLoopCond(c) THEN createLinkedListStep(c)
                           ELSE createLinkedListReturn(c)
      [] c.pc = "outerBuilt" -> triangulatePolygonOuterBuilt(c)
      [] c.pc = "holeBuilt" -> processHolesHoleBuilt(c)
      [] c.pc = "loop" ->
            IF c.nodes[c.ear].prev = c.nodes[c.ear].next THEN RingExhaustedStep(c)
            ELSE IF EarTest(c) THEN ClipEarStep(c)
            ELSE IF c.nodes[c.ear].next # c.stopPoint THEN SkipEarStep(c)
            ELSE StalledStep(c)
      [] c.pc = "simplify" -> IF SimplifyRemoves(c) THEN SimplifyRemoveStep(c)
                              ELSE SimplifyKeepStep(c)
      [] OTHER -> c

(***************************************************************************)
(* flattenPolygonData and calculateTriangulationQuality                    *)
(***************************************************************************)
\* The inner loops of flattenPolygonData: the first `dimensions` coordinates
\* of every point of one ring, in order.
RECURSIVE RingCoords(_, _, _)
RingCoords(ring, k, dimensions) ==
    IF k > Len(ring) THEN <<>>
    ELSE SubSeq(ring[k], 1, dimensions) \o RingCoords(ring, k + 1, dimensions)

\* Mutant of FlattenFrom: the hole index counts buffer entries, not points.
RECURSIVE FlattenFromOffsets(_, _, _, _, _, _, _)
FlattenFromOffsets(data, k, vertices, holes, holeIndex, previousLength, dimensions) ==
    IF k > Len(data)
    THEN [vertices |-> vertices, holes |-> holes, dimensions |-> dimensions]
    ELSE LET vs == vertices \o RingCoords(data[k], 1, dimensions)
             hs == IF previousLength # 0 THEN Append(holes, Len(vertices)) ELSE holes
         IN  FlattenFromOffsets(data, k + 1, vs, hs, Len(vertices), Len(data[k]), dimensions)

\* The loop over the rings, from ring k on, with the loop's variables.
RECURSIVE FlattenFrom(_, _, _, _, _, _, _)
FlattenFrom(data, k, vertices, holes, holeIndex, previousLength, dimensions) ==
    IF k > Len(data)
    THEN [vertices |-> vertices, holes |-> holes, dimensions |-> dimensions]
    ELSE LET vs == vertices \o RingCoords(data[k], 1, dimensions)
             hi == IF previousLength # 0 THEN holeIndex + previousLength ELSE holeIndex
             hs == IF previousLength # 0 THEN Append(holes, hi) ELSE holes
         IN  FlattenFrom(data, k + 1, vs, hs, hi, Len(data[k]), dimensions)

\* data[0][0].length raises a TypeError when there is no first point.
FlattenThrows(data) == Len(data) = 0 \/ Len(data[1]) = 0

flattenPolygonData(data) ==
    FlattenFrom(data, 1, <<>>, <<>>, 0, 0, Len(data[1][1]))

\* The summand of the loop of lines 391-398 for the triangle at offset k.
TriangleTerm(vertices, dimensions, triangles, k) ==
    LET a == At(triangles, k) * dimensions
        b == At(triangles, k + 1) * dimensions
        c == At(triangles, k + 2) * dimensions
    IN  Abs((At(vertices, a) - At(vertices, c)) * (At(vertices, b + 1) - At(vertices, a + 1))
          - (At(vertices, a) - At(vertices, b)) * (At(vertices, c + 1) - At(vertices, a + 1)))

RECURSIVE TrianglesAreaFrom(_, _, _, _)
TrianglesAreaFrom(vertices, dimensions, triangles, k) ==
    IF k >= Len(triangles) THEN 0
    ELSE TriangleTerm(vertices, dimensions, triangles, k)
         + TrianglesAreaFrom(vertices, dimensions, triangles, k + 3)

\* trianglesArea of calculateTriangulationQuality (twice the covered area).
TrianglesArea(vertices, dimensions, triangles) ==
    TrianglesAreaFrom(vertices, dimensions, triangles, 0)

\* Mutant of HolesAreaFrom: the signed area of a hole range is subtracted
\* as it is, without Math.abs.
RECURSIVE HolesAreaFromSigned(_, _, _, _)
HolesAreaFromSigned(vertices, holeIndices, dimensions, k) ==
    IF k > Len(holeIndices) THEN 0
    ELSE LET start == holeIndices[k] * dimensions
             end == IF k < Len(holeIndices) THEN holeIndices[k + 1] * dimensions
                    ELSE Len(vertices)
         IN  calculateSignedArea(vertices, start, end, dimensions)
             + HolesAreaFromSigned(vertices, holeIndices, dimensions, k + 1)

RECURSIVE HolesAreaFrom(_, _, _, _)
HolesAreaFrom(vertices, holeIndices, dimensions, k) ==
    IF k > Len(holeIndices) THEN 0
    ELSE LET start == holeIndices[k] * dimensions
             end == IF k < Len(holeIndices) THEN holeIndices[k + 1] * dimensions
                    ELSE Len(vertices)
         IN  Abs(calculateSignedArea(vertices, start, end, dimensions))
             + HolesAreaFrom(vertices, holeIndices, dimensions, k + 1)

\* polygonArea of calculateTriangulationQuality (twice the expected area).
PolygonArea(vertices, holeIndices, dimensions) ==
    LET outerLen == IF Len(holeIndices) > 0 THEN holeIndices[1] * dimensions
                    ELSE Len(vertices)
    IN  Abs(calculateSignedArea(vertices, 0, outerLen, dimensions))
        - HolesAreaFrom(vertices, holeIndices, dimensions, 1)

\* calculateTriangulationQuality as the fraction num/den it returns; den = 0
\* with num # 0 is the division by zero of line 401 (Infinity).
calculateTriangulationQuality(vertices, holeIndices, dimensions, triangles) ==
    LET polygonArea == PolygonArea(vertices, holeIndices, dimensions)
        trianglesArea == TrianglesArea(vertices, dimensions, triangles)
    IN  IF polygonArea = 0 /\ trianglesArea = 0 THEN [num |-> 0, den |-> 1]
        ELSE [num |-> Abs(trianglesArea - polygonArea), den |-> Abs(polygonArea)]

(***************************************************************************)
(* Inputs                                                                  *)
(***************************************************************************)
Coords == 0..MaxCoord
Points == {<<x, y>> : x \in Coords, y \in Coords}

\* The polygons the specification and the claims name, and some more shapes.
Square4 == <<<<0, 0>>, <<4, 0>>, <<4, 4>>, <<0, 4>>>>
Square4Dup == <<<<0, 0>>, <<0, 0>>, <<4, 0>>, <<4, 4>>, <<0, 4>>>>
Square10 == <<<<0, 0>>, <<10, 0>>, <<10, 10>>, <<0, 10>>>>
Hole4 == <<<<3, 3>>, <<7, 3>>, <<7, 7>>, <<3, 7>>>>
LShape == <<<<0, 0>>, <<2, 0>>, <<2, 1>>, <<1, 1>>, <<1, 2>>, <<0, 2>>>>
Dart == <<<<0, 0>>, <<2, 1>>, <<0, 2>>, <<1, 1>>>>
BowTie == <<<<0, 0>>, <<2, 2>>, <<2, 0>>, <<0, 2>>>>
Collinear5 == <<<<0, 0>>, <<1, 0>>, <<2, 0>>, <<2, 2>>, <<0, 2>>>>
Square4Rev == <<<<0, 4>>, <<4, 4>>, <<4, 0>>, <<0, 0>>>>
LShapeDup == <<<<0, 0>>, <<2, 0>>, <<2, 1>>, <<1, 1>>, <<1, 1>>, <<1, 2>>, <<0, 2>>>>
\* A ring that crosses itself and repeats a vertex: pass 0 takes an ear and
\* stalls, simplifyPoints drops the repeated vertex, pass 1 scans three nodes.
CrossedDup == <<<<0, 0>>, <<0, 1>>, <<0, 1>>, <<1, 0>>, <<1, 2>>>>

\* A convex polygon above the indexing threshold (81 vertices on a parabola),
\* and the same polygon with its first vertex given twice.
Big81 == [k \in 1..(IndexThreshold + 1) |-> <<k - 1, (k - 1) * (k - 1)>>]
Big81Dup == <<Big81[1]>> \o Big81

ExamplePolys == {Square4, Square4Dup, Square10, LShape, Dart, BowTie,
                 Collinear5, Square4Rev, LShapeDup, CrossedDup, Big81, Big81Dup}

(***************************************************************************)
(* Geometry of the inputs, used to state the claims (not part of the       *)
(* program)                                                                *)
(***************************************************************************)
Orient(a, b, c) == (b[1] - a[1]) * (c[2] - a[2]) - (b[2] - a[2]) * (c[1] - a[1])

OnSegment(a, b, p) ==
    /\ Orient(a, b, p) = 0
    /\ Min2(a[1], b[1]) <= p[1] /\ p[1] <= Max2(a[1], b[1])
    /\ Min2(a[2], b[2]) <= p[2] /\ p[2] <= Max2(a[2], b[2])

Sign(v) == IF v > 0 THEN 1 ELSE IF v < 0 THEN -1 ELSE 0

\* The closed segments ab and cd have a common point.
SegmentsMeet(a, b, c, d) ==
    \/ /\ Sign(Orient(a, b, c)) * Sign(Orient(a, b, d)) < 0
       /\ Sign(Orient(c, d, a)) * Sign(Orient(c, d, b)) < 0
    \/ OnSegment(a, b, c) \/ OnSegment(a, b, d)
    \/ OnSegment(c, d, a) \/ OnSegment(c, d, b)

Succ(k, n) == IF k = n THEN 1 ELSE k + 1

\* A simple polygon: at least three pairwise distinct vertices, edges that
\* are not neighbours do not meet, and neighbouring edges meet only in their
\* common vertex.
IsSimple(poly) ==
    LET n == Len(poly)
    IN  /\ n >= 3
        /\ \A j, k \in 1..n : j # k => poly[j] # poly[k]
        /\ \A j \in 1..n :
               /\ ~OnSegment(poly[j], poly[Succ(j, n)], poly[Succ(Succ(j, n), n)])
               /\ ~OnSegment(poly[Succ(j, n)], poly[Succ(Succ(j, n), n)], poly[j])
        /\ \A j, k \in 1..n :
               (j < k /\ Succ(j, n) # k /\ Succ(k, n) # j)
                   => ~SegmentsMeet(poly[j], poly[Succ(j, n)], poly[k], poly[Succ(k, n)])

\* The polygon without the vertices that repeat their predecessor.
Dedup(poly) ==
    LET kept == {k \in 1..Len(poly) : k = 1 \/ poly[k] # poly[k - 1]}
        rank(k) == Cardinality({j \in kept : j <= k})
    IN  [m \in 1..Cardinality(kept) |-> poly[CHOOSE k \in kept : rank(k) = m]]

\* Twice the area of a polygon given as points (shoelace), as a magnitude.
DoubleArea(poly) ==
    LET terms == [k \in 1..Len(poly) |->
                    poly[k][1] * poly[Succ(k, Len(poly))][2]
                    - poly[Succ(k, Len(poly))][1] * poly[k][2]]
    IN  Abs(SumSeq(terms, 1, Len(poly)))

\* p lies strictly inside the simple polygon poly (crossing number).
CrossesRay(a, b, p) ==
    /\ (a[2] > p[2]) # (b[2] > p[2])
    /\ IF b[2] > a[2] THEN Orient(a, b, p) > 0 ELSE Orient(a, b, p) < 0

StrictlyInside(p, poly) ==
    LET n == Len(poly)
    IN  /\ \A k \in 1..n : ~OnSegment(poly[k], poly[Succ(k, n)], p)
        /\ Cardinality({k \in 1..n : CrossesRay(poly[k], poly[Succ(k, n)], p)}) % 2 = 1

\* A simple outer polygon with one simple hole strictly inside it.
HoleInside(outer, hole) ==
    /\ IsSimple(outer) /\ IsSimple(hole)
    /\ \A k \in 1..Len(hole) : StrictlyInside(hole[k], outer)
    /\ \A j \in 1..Len(outer), k \in 1..Len(hole) :
           ~SegmentsMeet(outer[j], outer[Succ(j, Len(outer))],
                         hole[k], hole[Succ(k, Len(hole))])

\* The coordinates beyond the second of vertex k (0-based), for two fillings.
ExtraCoord(k, d, fill) == IF fill = 0 THEN 7 * k + d ELSE 5 - 3 * k

\* The flat buffer of a polygon with `dimensions` coordinates per vertex.
Flat(poly, dimensions, fill) ==
    [k \in 1..(Len(poly) * dimensions) |->
        LET v == (k - 1) \div dimensions
            d == (k - 1) % dimensions
        IN  IF d < 2 THEN poly[v + 1][d + 1] ELSE ExtraCoord(v, d - 1, fill)]

\* The first two coordinates of every vertex of a flat buffer.
Project2(vertices, dimensions) ==
    [k \in 1..(2 * (Len(vertices) \div dimensions)) |->
        At(vertices, ((k - 1) \div 2) * dimensions + ((k - 1) % 2))]

\* An input of PolygonTools.triangulate: the polygon, its flat buffer, and
\* what the claims need to know of its shape.
FlatInput(poly, holeIndices, dimensions, fill) ==
    LET outer == IF Len(holeIndices) > 0 THEN SubSeq(poly, 1, holeIndices[1]) ELSE poly
        hole == IF Len(holeIndices) = 1
                THEN SubSeq(poly, holeIndices[1] + 1, Len(poly)) ELSE <<>>
    IN  [kind |-> "flat", data |-> <<>>, poly |-> poly,
         vertices |-> Flat(poly, dimensions, fill),
         holeIndices |-> holeIndices, dimensions |-> dimensions,
         simple |-> Len(holeIndices) = 0 /\ IsSimple(poly),
         dedupSimple |-> /\ Len(holeIndices) = 0
                         /\ Len(Dedup(poly)) = Len(poly) - 1
                         /\ IsSimple(Dedup(poly)),
         holeInside |-> Len(holeIndices) = 1 /\ HoleInside(outer, hole)]

\* An input of PolygonTools.flatten.
NestedInput(data) ==
    [kind |-> "nested", data |-> data, poly |-> <<>>, vertices |-> <<>>,
     holeIndices |-> <<>>, dimensions |-> 0,
     simple |-> FALSE, dedupSimple |-> FALSE, holeInside |-> FALSE]

\* Nested ring data for flattenPolygonData: at most MaxRings rings, each
\* drawn from a pool of rings of tuples of length d.
MaxRings == 3
Ring(poly, d) == [k \in 1..Len(poly) |-> Flat(<<poly[k]>>, d, 1)]
RingPool(d) ==
    {Ring(p, d) : p \in {<<>>, <<<<1, 1>>>>, <<<<4, 4>>, <<6, 4>>, <<5, 6>>>>, Square10, Hole4}}

\* The flat buffer and hole list of nested data built by hand: the
\* coordinates of all points in ring order, and for every ring after the
\* first the number of points before it.
RECURSIVE PointsBefore(_, _)
PointsBefore(data, k) ==
    IF k <= 1 THEN 0 ELSE Len(data[k - 1]) + PointsBefore(data, k - 1)

RECURSIVE ManualVerticesFrom(_, _, _)
ManualVerticesFrom(data, k, dimensions) ==
    IF k > Len(data) THEN <<>>
    ELSE RingCoords(data[k], 1, dimensions) \o ManualVerticesFrom(data, k + 1, dimensions)

ManualDimensions(data) == Len(data[1][1])
ManualVertices(data) == ManualVerticesFrom(data, 1, ManualDimensions(data))
ManualHoles(data) == [k \in 1..(Len(data) - 1) |-> PointsBefore(data, k + 1)]

(***************************************************************************)
(* The state machine                                                       *)
(***************************************************************************)
NoCall == [NewCall(<<>>, <<>>, 2) EXCEPT !.pc = "none"]

\* The call a run is compared with: for a buffer with more than two
\* coordinates per vertex, the call on its two-coordinate projection; for
\* nested data, the call on the buffer and hole list built by hand.
RefCall(inp) ==
    IF inp.kind = "nested"
    THEN IF FlattenThrows(inp.data) THEN NoCall
         ELSE NewCall(ManualVertices(inp.data), ManualHoles(inp.data),
                      ManualDimensions(inp.data))
    ELSE IF inp.dimensions > 2
    THEN NewCall(Project2(inp.vertices, inp.dimensions), inp.holeIndices, 2)
    ELSE NoCall

\* The objects of the other modules are not used by a triangulation run.
LibIdle ==
    /\ quality = [pc |-> "none"]
    /\ renderer = [pc |-> "none"]
    /\ color = [pc |-> "none"]
    /\ texture = [pc |-> "none"]
    /\ index = [pc |-> "none"]

\* The first state of a run on one input.
StartOn(inp) ==
    /\ input = inp
    /\ call = IF inp.kind = "nested"
              THEN [NewCall(<<>>, <<>>, 0) EXCEPT !.pc = "flatten"]
              ELSE NewCall(inp.vertices, inp.holeIndices, inp.dimensions)
    /\ ref = RefCall(inp)
    /\ LibIdle

\* Two-coordinate buffers without holes: every enumerated polygon and every
\* example.
PlainInit ==
    \/ \E n \in 0..MaxVerts : \E p \in [1..n -> Points] :
          StartOn(FlatInput(p, <<>>, 2, 0))
    \/ \E p \in ExamplePolys : StartOn(FlatInput(p, <<>>, 2, 0))

\* Buffers with more than two coordinates per vertex.
WideInit ==
    \/ \E n \in 0..(MaxVerts - 1), fill \in {0, 1} : \E p \in [1..n -> Points] :
          StartOn(FlatInput(p, <<>>, 3, fill))
    \/ \E d \in {3, 4}, fill \in {0, 1} : \E p \in ExamplePolys :
          StartOn(FlatInput(p, <<>>, d, fill))

\* Buffers with one hole starting at any vertex ordinal, and the examples
\* with holes.
HoleInit ==
    \/ \E n \in 0..(MaxVerts - 1) : \E p \in [1..n -> Points] : \E h \in 0..n :
          StartOn(FlatInput(p, <<h>>, 2, 0))
    \/ \E d \in {2, 3} : StartOn(FlatInput(Square10 \o Hole4, <<4>>, d, 0))
    \/ StartOn(FlatInput(Square10 \o Hole4 \o <<<<1, 1>>>>, <<4, 8>>, 2, 0))

NestedInit ==
    \E n \in 0..MaxRings, d \in {2, 3} : \E data \in [1..n -> RingPool(d)] :
        StartOn(NestedInput(data))

Init == PlainInit \/ WideInit \/ HoleInit \/ NestedInit

\* PolygonTools.flatten, then PolygonTools.triangulate on its result.
Flatten ==
    /\ call.pc = "flatten"
    /\ call' = IF FlattenThrows(input.data)
               THEN Throw(call, "TypeError: data[0][0] is undefined")
               ELSE LET f == flattenPolygonData(input.data)
                    IN  NewCall(f.vertices, f.holes, f.dimensions)
    /\ UNCHANGED <<ref, input, libVars>>

TriangulatePolygon ==
    /\ call.pc = "start"
    /\ call' = triangulatePolygonEnter(call)
    /\ UNCHANGED <<ref, input, libVars>>

AddNode ==
    /\ call.pc = "build" /\ ListLoopCond(call)
    /\ call' = createLinkedListStep(call)
    /\ UNCHANGED <<ref, input, libVars>>

CreateLinkedListReturn ==
    /\ call.pc = "build" /\ ~ListLoopCond(call)
    /\ call' = createLinkedListReturn(call)
    /\ UNCHANGED <<ref, input, libVars>>

OuterBuilt ==
    /\ call.pc = "outerBuilt"
    /\ call' = triangulatePolygonOuterBuilt(call)
    /\ UNCHANGED <<ref, input, libVars>>

HoleBuilt ==
    /\ call.pc = "holeBuilt"
    /\ call' = processHolesHoleBuilt(call)
    /\ UNCHANGED <<ref, input, libVars>>

RingExhausted ==
    /\ call.pc = "loop"
    /\ call.nodes[call.ear].prev = call.nodes[call.ear].next
    /\ call' = RingExhaustedStep(call)
    /\ UNCHANGED <<ref, input, libVars>>

ClipEar ==
    /\ call.pc = "loop"
    /\ call.nodes[call.ear].prev # call.nodes[call.ear].next
    /\ EarTest(call)
    /\ call' = ClipEarStep(call)
    /\ UNCHANGED <<ref, input, libVars>>

SkipEar ==
    /\ call.pc = "loop"
    /\ call.nodes[call.ear].prev # call.nodes[call.ear].next
    /\ ~EarTest(call)
    /\ call.nodes[call.ear].next # call.stopPoint
    /\ call' = SkipEarStep(call)
    /\ UNCHANGED <<ref, input, libVars>>

Stalled ==
    /\ call.pc = "loop"
    /\ call.nodes[call.ear].prev # call.nodes[call.ear].next
    /\ ~EarTest(call)
    /\ call.nodes[call.ear].next = call.stopPoint
    /\ call' = StalledStep(call)
    /\ UNCHANGED <<ref, input, libVars>>

SimplifyRemove ==
    /\ call.pc = "simplify" /\ SimplifyRemoves(call)
    /\ call' = SimplifyRemoveStep(call)
    /\ UNCHANGED <<ref, input, libVars>>

SimplifyKeep ==
    /\ call.pc = "simplify" /\ ~SimplifyRemoves(call)
    /\ call' = SimplifyKeepStep(call)
    /\ UNCHANGED <<ref, input, libVars>>

\* The call to compare with runs once the call itself has ended.
RefStep ==
    /\ Terminated(call)
    /\ ref.pc \notin {"none", "done", "threw"}
    /\ ref' = StepCall(ref)
    /\ UNCHANGED <<call, input, libVars>>

Next ==
    \/ Flatten
    \/ TriangulatePolygon
    \/ AddNode
    \/ CreateLinkedListReturn
    \/ OuterBuilt
    \/ HoleBuilt
    \/ RingExhausted
    \/ ClipEar
    \/ SkipEar
    \/ Stalled
    \/ SimplifyRemove
    \/ SimplifyKeep
    \/ RefStep

Spec == Init /\ [][Next]_vars

\* The call is synchronous and single-threaded: a step that can be taken is
\* taken.
FairSpec == Spec /\ WF_vars(Next)

(***************************************************************************)
(* PolygonTools.getQuality on its own                                      *)
(***************************************************************************)
\* No triangulation run: the state of the other specifications.
TriIdle ==
    /\ call = NoCall /\ ref = NoCall /\ input = NestedInput(<<>>)

IndexIdle == index = [pc |-> "none"]

\* Triangle lists over the ordinals of n vertices.
TriangleLists(n) ==
    {<<>>}
    \cup (IF n >= 3 THEN {<<0, 1, 2>>, <<2, 1, 0, 0, 1, 2>>} ELSE {})
    \cup (IF n >= 4 THEN {<<1, 2, 3>>, <<0, 1, 2, 0, 2, 3>>} ELSE {})

\* Polygons with holes for getQuality: a hole inside, a hole larger than the
\* outer ring, two holes.
QualityExamples ==
    {<<Square10 \o Hole4, <<4>>>>,
     <<Hole4 \o Square10, <<4>>>>,
     <<Square10 \o Hole4 \o <<<<1, 1>>, <<2, 1>>, <<1, 2>>>>, <<4, 8>>>>,
     <<Square4, <<>>>>, <<LShape, <<>>>>}

QualityCall(poly, holeIndices, dimensions, triangles) ==
    [pc |-> "call", poly |-> poly, vertices |-> Flat(poly, dimensions, 1),
     holeIndices |-> holeIndices, dimensions |-> dimensions,
     triangles |-> triangles, result |-> [num |-> 0, den |-> 1]]

QualityStart(q) ==
    /\ quality = q
    /\ renderer = [pc |-> "none"] /\ color = [pc |-> "none"] /\ texture = [pc |-> "none"]
    /\ TriIdle /\ IndexIdle

QualityInit ==
    \/ \E n \in 0..(MaxVerts - 1), d \in {2, 3} : \E p \in [1..n -> Points] :
          \E hs \in {<<>>} \cup {<<h>> : h \in 0..n} : \E ts \in TriangleLists(n) :
              QualityStart(QualityCall(p, hs, d, ts))
    \/ \E e \in QualityExamples, d \in {2, 3} : \E ts \in TriangleLists(4) :
          QualityStart(QualityCall(e[1], e[2], d, ts))

GetQuality ==
    /\ quality.pc = "call"
    /\ quality' = [quality EXCEPT !.pc = "done",
                      !.result = calculateTriangulationQuality(quality.vertices,
                                     quality.holeIndices, quality.dimensions,
                                     quality.triangles)]
    /\ UNCHANGED <<triVars, index, renderer, color, texture>>

QualityNext == GetQuality

QualitySpec == QualityInit /\ [][QualityNext]_vars

(***************************************************************************)
(* WebGLRenderer (src/renderer/WebGLRenderer.js)                           *)
(***************************************************************************)
\* Sizes passed to setSize: 0..MaxSize.
MaxSize == 4

\* A JavaScript property that may be undefined: <<>> or <<value>>.
Undefined == <<>>
Some(v) == <<v>>

\* A canvas element as the host page creates it (the DOM's default size and
\* an empty inline style); the class itself never creates one.
HostCanvas ==
    [width |-> 300, height |-> 150, style |-> [width |-> Undefined, height |-> Undefined]]

\* new WebGLRenderer(): the class declares no constructor and no fields.
\* `sized` records the arguments of the last setSize call.
NewWebGLRenderer ==
    [pc |-> "live", width |-> Undefined, height |-> Undefined,
     domElement |-> Undefined, sized |-> Undefined]

\* The template literal `${n}px`.
Px(n) == <<n, "px">>

\* setSize(width, height, updateStyle), lines 15-22.
setSize(r, width, height, updateStyle) ==
    LET r1 == [r EXCEPT !.width = Some(width), !.height = Some(height),
                        !.sized = Some(<<width, height>>)]
    IN  IF updateStyle /\ r1.domElement # Undefined
        THEN [r1 EXCEPT !.domElement =
                  Some([r1.domElement[1] EXCEPT !.style =
                            [width |-> Some(Px(width)), height |-> Some(Px(height))]])]
        ELSE r1

RendererInit ==
    /\ renderer = NewWebGLRenderer
    /\ quality = [pc |-> "none"] /\ color = [pc |-> "none"] /\ texture = [pc |-> "none"]
    /\ TriIdle /\ IndexIdle

SetSize ==
    /\ renderer.pc = "live"
    /\ \E width \in 0..MaxSize, height \in 0..MaxSize, updateStyle \in BOOLEAN :
          renderer' = setSize(renderer, width, height, updateStyle)
    /\ UNCHANGED <<triVars, index, quality, color, texture>>

\* The host assigns a canvas to renderer.domElement.
AssignDomElement ==
    /\ renderer.pc = "live" /\ renderer.domElement = Undefined
    /\ renderer' = [renderer EXCEPT !.domElement = Some(HostCanvas)]
    /\ UNCHANGED <<triVars, index, quality, color, texture>>

RendererNext == SetSize \/ AssignDomElement

RendererSpec == RendererInit /\ [][RendererNext]_vars

(***************************************************************************)
(* DSRTColor JSON serialisation (src/unnamed/part_004)                     *)
(***************************************************************************)
\* A channel value is the fraction n / ColorDen: half steps of the 8-bit
\* grid, so that 0.3 = 153 / 510 has the exact product 0.3 * 255 = 76.5.
ByteMax == 255
ColorDen == 2 * ByteMax

\* Enumerated channel numerators: 0..MaxChannel, besides the examples.
MaxChannel == 2

\* 0.2, 0.3, 0.4 (the colour of the test), one half and the top of the range.
ChannelExamples == {102, 153, 204, ByteMax, ColorDen - 1, ColorDen}
Channels == (0..MaxChannel) \cup ChannelExamples

\* clamp(value, min, max) of MathUtils.
clamp(value, min, max) == Max2(min, Min2(max, value))

\* Math.round of the fraction num / den (den > 0): halves round up.
MathRound(num, den) == (2 * num + den) \div (2 * den)

\* Math.round(clamp(this.r * 255, 0, 255)) for the channel n / ColorDen.
ChannelByte(n) == MathRound(clamp(n * ByteMax, 0, ByteMax * ColorDen), ColorDen)

\* getHex, lines 467-472: the bytes are disjoint bit fields, so ^ adds them.
getHex(c) ==
    ChannelByte(c.r) * 65536 + ChannelByte(c.g) * 256 + ChannelByte(c.b)

\* ColorManagement.colorSpaceToWorking is imported from a module that is not
\* in the repository; the colour space given is taken to be the working one,
\* where the conversion changes nothing.
colorSpaceToWorking(c, colorSpace) == c

\* setHex, lines 320-327; hex is a non-negative integer here.
setHex(c, hex, colorSpace) ==
    colorSpaceToWorking(
        [c EXCEPT !.r = (((hex \div 65536) % 256) * ColorDen) \div ByteMax,
                  !.g = (((hex \div 256) % 256) * ColorDen) \div ByteMax,
                  !.b = ((hex % 256) * ColorDen) \div ByteMax],
        colorSpace)

\* new DSRTColor(r, g, b) (lines 273-280, 337-343) and new DSRTColor().
NewColor(r, g, b) == colorSpaceToWorking([r |-> r, g |-> g, b |-> b], "working")
WhiteColor == [r |-> ColorDen, g |-> ColorDen, b |-> ColorDen]

\* toJSON, lines 745-754.
toJSON(c, colorSpace) ==
    [type |-> "DSRT.Color", hex |-> getHex(c), r |-> c.r, g |-> c.g, b |-> c.b,
     colorSpace |-> colorSpace]

\* fromJSON, lines 761-766, for a json object with a hex member.
fromJSON(c, json) == setHex(c, json.hex, json.colorSpace)

\* equals, lines 690-692.
equals(c, d) == c.r = d.r /\ c.g = d.g /\ c.b = d.b

ColorInit ==
    /\ \E r \in Channels, g \in Channels, b \in Channels :
          color = [pc |-> "new", c |-> NewColor(r, g, b),
                   json |-> toJSON(WhiteColor, "srgb"), d |-> WhiteColor]
    /\ quality = [pc |-> "none"] /\ renderer = [pc |-> "none"] /\ texture = [pc |-> "none"]
    /\ TriIdle /\ IndexIdle

\* const json = c.toJSON();
ToJSON ==
    /\ color.pc = "new"
    /\ color' = [color EXCEPT !.pc = "written", !.json = toJSON(color.c, "srgb")]
    /\ UNCHANGED <<triVars, index, quality, renderer, texture>>

\* const d = new DSRTColor().fromJSON(json);
FromJSON ==
    /\ color.pc = "written"
    /\ color' = [color EXCEPT !.pc = "read", !.d = fromJSON(WhiteColor, color.json)]
    /\ UNCHANGED <<triVars, index, quality, renderer, texture>>

ColorNext == ToJSON \/ FromJSON

ColorSpec == ColorInit /\ [][ColorNext]_vars

(***************************************************************************)
(* TextureUtilities.isCompressedFormat (src/textures/TextureUtils.js)      *)
(***************************************************************************)
\* The data type and texture format constants of src/Constants.js.
TYPE_UNSIGNED_BYTE == 1009
TYPE_BYTE == 1010
TYPE_SHORT == 1011
TYPE_UNSIGNED_SHORT == 1012
TYPE_INT == 1013
TYPE_UNSIGNED_INT == 1014
TYPE_FLOAT == 1015
TYPE_HALF_FLOAT == 1016
TYPE_UNSIGNED_SHORT_4444 == 1017
TYPE_UNSIGNED_SHORT_5551 == 1018
TYPE_UNSIGNED_INT_24_8 == 1020
TYPE_UNSIGNED_INT_5999 == 35902
TYPE_UNSIGNED_INT_101111 == 35899
FORMAT_ALPHA == 1021
FORMAT_RGB == 1022
FORMAT_RGBA == 1023
FORMAT_DEPTH == 1026
FORMAT_DEPTH_STENCIL == 1027
FORMAT_RED == 1028
FORMAT_RED_INTEGER == 1029
FORMAT_RG == 1030
FORMAT_RG_INTEGER == 1031
FORMAT_RGB_INTEGER == 1032
FORMAT_RGBA_INTEGER == 1033
FORMAT_RGB_S3TC_DXT1 == 33776
FORMAT_RGBA_S3TC_DXT1 == 33777
FORMAT_RGBA_S3TC_DXT3 == 33778
FORMAT_RGBA_S3TC_DXT5 == 33779
FORMAT_RGB_PVRTC_4BPPV1 == 35840
FORMAT_RGB_PVRTC_2BPPV1 == 35841
FORMAT_RGBA_PVRTC_4BPPV1 == 35842
FORMAT_RGBA_PVRTC_2BPPV1 == 35843
FORMAT_RGB_ETC1 == 36196
FORMAT_RGB_ETC2 == 37492
FORMAT_RGBA_ETC2_EAC == 37496
FORMAT_R11_EAC == 37488
FORMAT_SIGNED_R11_EAC == 37489
FORMAT_RG11_EAC == 37490
FORMAT_SIGNED_RG11_EAC == 37491
FORMAT_RGBA_ASTC_4x4 == 37808
FORMAT_RGBA_ASTC_5x4 == 37809
FORMAT_RGBA_ASTC_5x5 == 37810
FORMAT_RGBA_ASTC_6x5 == 37811
FORMAT_RGBA_ASTC_6x6 == 37812
FORMAT_RGBA_ASTC_8x5 == 37813
FORMAT_RGBA_ASTC_8x6 == 37814
FORMAT_RGBA_ASTC_8x8 == 37815
FORMAT_RGBA_ASTC_10x5 == 37816
FORMAT_RGBA_ASTC_10x6 == 37817
FORMAT_RGBA_ASTC_10x8 == 37818
FORMAT_RGBA_ASTC_10x10 == 37819
FORMAT_RGBA_ASTC_12x10 == 37820
FORMAT_RGBA_ASTC_12x12 == 37821
FORMAT_RGBA_BPTC == 36492
FORMAT_RGB_BPTC_SIGNED == 36494
FORMAT_RGB_BPTC_UNSIGNED == 36495
FORMAT_RED_RGTC1 == 36283
FORMAT_SIGNED_RED_RGTC1 == 36284
FORMAT_RED_GREEN_RGTC2 == 36285
FORMAT_SIGNED_RED_GREEN_RGTC2 == 36286

TypeConstants ==
    {TYPE_UNSIGNED_BYTE, TYPE_BYTE, TYPE_SHORT, TYPE_UNSIGNED_SHORT, 
     TYPE_INT, TYPE_UNSIGNED_INT, TYPE_FLOAT, TYPE_HALF_FLOAT, 
     TYPE_UNSIGNED_SHORT_4444, TYPE_UNSIGNED_SHORT_5551, 
     TYPE_UNSIGNED_INT_24_8, TYPE_UNSIGNED_INT_5999, 
     TYPE_UNSIGNED_INT_101111}

FormatConstants ==
    {FORMAT_ALPHA, FORMAT_RGB, FORMAT_RGBA, FORMAT_DEPTH, 
     FORMAT_DEPTH_STENCIL, FORMAT_RED, FORMAT_RED_INTEGER, FORMAT_RG, 
     FORMAT_RG_INTEGER, FORMAT_RGB_INTEGER, FORMAT_RGBA_INTEGER, 
     FORMAT_RGB_S3TC_DXT1, FORMAT_RGBA_S3TC_DXT1, FORMAT_RGBA_S3TC_DXT3, 
     FORMAT_RGBA_S3TC_DXT5, FORMAT_RGB_PVRTC_4BPPV1, 
     FORMAT_RGB_PVRTC_2BPPV1, FORMAT_RGBA_PVRTC_4BPPV1, 
     FORMAT_RGBA_PVRTC_2BPPV1, FORMAT_RGB_ETC1, FORMAT_RGB_ETC2, 
     FORMAT_RGBA_ETC2_EAC, FORMAT_R11_EAC, FORMAT_SIGNED_R11_EAC, 
     FORMAT_RG11_EAC, FORMAT_SIGNED_RG11_EAC, FORMAT_RGBA_ASTC_4x4, 
     FORMAT_RGBA_ASTC_5x4, FORMAT_RGBA_ASTC_5x5, FORMAT_RGBA_ASTC_6x5, 
     FORMAT_RGBA_ASTC_6x6, FORMAT_RGBA_ASTC_8x5, FORMAT_RGBA_ASTC_8x6, 
     FORMAT_RGBA_ASTC_8x8, FORMAT_RGBA_ASTC_10x5, FORMAT_RGBA_ASTC_10x6, 
     FORMAT_RGBA_ASTC_10x8, FORMAT_RGBA_ASTC_10x10, 
     FORMAT_RGBA_ASTC_12x10, FORMAT_RGBA_ASTC_12x12, FORMAT_RGBA_BPTC, 
     FORMAT_RGB_BPTC_SIGNED, FORMAT_RGB_BPTC_UNSIGNED, FORMAT_RED_RGTC1, 
     FORMAT_SIGNED_RED_RGTC1, FORMAT_RED_GREEN_RGTC2, 
     FORMAT_SIGNED_RED_GREEN_RGTC2}

\* The formats calculateTextureSize sizes by blocks (the cases of lines
\* 154-226), and those it sizes by pixels (lines 135-152).
BlockSizedFormats ==
    {FORMAT_RGB_S3TC_DXT1, FORMAT_RGBA_S3TC_DXT1, FORMAT_RGBA_S3TC_DXT3, 
     FORMAT_RGBA_S3TC_DXT5, FORMAT_RGB_PVRTC_2BPPV1, 
     FORMAT_RGBA_PVRTC_2BPPV1, FORMAT_RGB_PVRTC_4BPPV1, 
     FORMAT_RGBA_PVRTC_4BPPV1, FORMAT_RGB_ETC1, FORMAT_RGB_ETC2, 
     FORMAT_R11_EAC, FORMAT_SIGNED_R11_EAC, FORMAT_RGBA_ETC2_EAC, 
     FORMAT_RG11_EAC, FORMAT_SIGNED_RG11_EAC, FORMAT_RGBA_ASTC_4x4, 
     FORMAT_RGBA_ASTC_5x4, FORMAT_RGBA_ASTC_5x5, FORMAT_RGBA_ASTC_6x5, 
     FORMAT_RGBA_ASTC_6x6, FORMAT_RGBA_ASTC_8x5, FORMAT_RGBA_ASTC_8x6, 
     FORMAT_RGBA_ASTC_8x8, FORMAT_RGBA_ASTC_10x5, FORMAT_RGBA_ASTC_10x6, 
     FORMAT_RGBA_ASTC_10x8, FORMAT_RGBA_ASTC_10x10, 
     FORMAT_RGBA_ASTC_12x10, FORMAT_RGBA_ASTC_12x12, FORMAT_RGBA_BPTC, 
     FORMAT_RGB_BPTC_SIGNED, FORMAT_RGB_BPTC_UNSIGNED, FORMAT_RED_RGTC1, 
     FORMAT_SIGNED_RED_RGTC1, FORMAT_RED_GREEN_RGTC2, 
     FORMAT_SIGNED_RED_GREEN_RGTC2}

PixelSizedFormats ==
    {FORMAT_ALPHA, FORMAT_RED, FORMAT_RED_INTEGER, FORMAT_RG, 
     FORMAT_RG_INTEGER, FORMAT_RGB, FORMAT_RGBA, FORMAT_RGBA_INTEGER}

\* isCompressedFormat, lines 319-321.
isCompressedFormat(format) ==
    format >= FORMAT_RGB_S3TC_DXT1 /\ format <= FORMAT_SIGNED_RED_GREEN_RGTC2

TextureInit ==
    /\ \E format \in TypeConstants \cup FormatConstants :
          texture = [pc |-> "call", format |-> format, result |-> FALSE]
    /\ quality = [pc |-> "none"] /\ renderer = [pc |-> "none"] /\ color = [pc |-> "none"]
    /\ TriIdle /\ IndexIdle

IsCompressedFormat ==
    /\ texture.pc = "call"
    /\ texture' = [texture EXCEPT !.pc = "done",
                      !.result = isCompressedFormat(texture.format)]
    /\ UNCHANGED <<triVars, index, quality, renderer, color>>

TextureNext == IsCompressedFormat

TextureSpec == TextureInit /\ [][TextureNext]_vars

(***************************************************************************)
(* The Z-order list: removeNode and isValidEarHashed on an indexed ring    *)
(***************************************************************************)
\* createLinkedList on the whole buffer of a polygon: the call when its
\* outer ring is built.
RECURSIVE BuildOuter(_)
BuildOuter(c) ==
    IF c.pc \in {"start", "build"} THEN BuildOuter(StepCall(c)) ELSE c

\* buildSpatialIndex is called at line 116 and defined nowhere in the
\* repository.  After it, every ring node carries its Morton key in z, and
\* prevZ/nextZ thread the ring nodes into a list ordered by z; the list ends
\* in null at both ends, which the tests "p &&", "n &&" of lines 204-226 and
\* "if (node.prevZ)" of lines 356-357 look for.
\* The keys of the nodes of the ring of node h.
AssignKeys(nodes, h, minX, minY, size) ==
    LET ring == RingNodes(nodes, h)
    IN  [m \in 1..Len(nodes) |->
            IF m \in ring
            THEN [nodes[m] EXCEPT
                    !.z = computeZOrder(nodes[m].x, nodes[m].y, minX, minY, size)]
            ELSE nodes[m]]

\* The orders the keyed ring of node h may be threaded in: every arrangement
\* of the ring nodes with ascending keys (the order of nodes with equal keys
\* is not determined).
SortedOrders(nodes, h) ==
    LET ring == RingNodes(nodes, h)
        n == Cardinality(ring)
    IN  {o \in [1..n -> ring] :
            /\ \A j \in 1..(n - 1) : nodes[o[j]].z <= nodes[o[j + 1]].z
            /\ \A j, k \in 1..n : j # k => o[j] # o[k]}

\* The Z-order links of the list `order`.
ThreadZ(nodes, order) ==
    [m \in 1..Len(nodes) |->
        IF \E k \in 1..Len(order) : order[k] = m
        THEN LET k == CHOOSE j \in 1..Len(order) : order[j] = m
             IN  [nodes[m] EXCEPT
                    !.prevZ = IF k = 1 THEN 0 ELSE order[k - 1],
                    !.nextZ = IF k = Len(order) THEN 0 ELSE order[k + 1]]
        ELSE nodes[m]]

buildSpatialIndex(nodes, h, order, minX, minY, size) ==
    ThreadZ(AssignKeys(nodes, h, minX, minY, size), order)

\* The bounding box of lines 30-45 for a two-coordinate buffer.
BoxMinX(poly) == SetMin({poly[k][1] : k \in 1..Len(poly)})
BoxMinY(poly) == SetMin({poly[k][2] : k \in 1..Len(poly)})
BoxSize(poly) ==
    Max2(SetMax({poly[k][1] : k \in 1..Len(poly)}) - BoxMinX(poly),
         SetMax({poly[k][2] : k \in 1..Len(poly)}) - BoxMinY(poly))

\* The rings of the examples the index is exercised on.  In FarCorner the
\* repeated vertex blocks the ear at (1,0) and the vertex (2,0) has a key
\* above those of the box of that ear's triangle.
FarCorner == <<<<2, 0>>, <<1, 0>>, <<0, 1>>, <<0, 0>>, <<0, 0>>>>
FarCornerTail == <<<<2, 0>>, <<2, 2>>, <<1, 0>>, <<0, 1>>, <<0, 0>>, <<0, 0>>>>
IndexExamples == {Square4Dup, LShape, Dart, BowTie, Collinear5, CrossedDup,
                  FarCorner, FarCornerTail}

\* An indexed ring: the arena, a node of the ring, and the box context.
IndexedRing(nodes, h, minX, minY, size) ==
    [pc |-> "ring", nodes |-> nodes, head |-> h,
     minX |-> minX, minY |-> minY, size |-> size]

IndexStart(poly) ==
    LET c == BuildOuter(NewCall(Flat(poly, 2, 0), <<>>, 2))
        keyed == AssignKeys(c.nodes, c.last, BoxMinX(poly), BoxMinY(poly), BoxSize(poly))
    IN  /\ c.last # 0
        /\ BoxSize(poly) # 0
        /\ \E order \in SortedOrders(keyed, c.last) :
              index = IndexedRing(ThreadZ(keyed, order), c.last,
                                  BoxMinX(poly), BoxMinY(poly), BoxSize(poly))
        /\ quality = [pc |-> "none"] /\ renderer = [pc |-> "none"]
        /\ color = [pc |-> "none"] /\ texture = [pc |-> "none"]
        /\ TriIdle

IndexInit ==
    \/ \E n \in 3..MaxVerts : \E p \in [1..n -> Points] : IndexStart(p)
    \/ \E p \in IndexExamples : IndexStart(p)

\* Lines 124-129 with scale set: an ear that passes isValidEarHashed is
\* removed and the scan resumes at next.next.
IndexClipEar ==
    /\ index.pc = "ring"
    /\ \E ear \in RingNodes(index.nodes, index.head) :
          /\ index.nodes[ear].prev # index.nodes[ear].next
          /\ isValidEarHashed(index.nodes, ear, index.minX, index.minY, index.size)
          /\ index' = [index EXCEPT
                         !.nodes = removeNode(index.nodes, ear),
                         !.head = index.nodes[index.nodes[ear].next].next]
    /\ UNCHANGED <<triVars, quality, renderer, color, texture>>

\* Lines 92-97: simplifyPoints removes a duplicate or collinear node and goes
\* on from its prev.
IndexSimplifyRemove ==
    /\ index.pc = "ring"
    /\ \E m \in RingNodes(index.nodes, index.head) :
          /\ index.nodes[m].next # m
          /\ SimplifyRemoves([nodes |-> index.nodes, current |-> m])
          /\ index' = [index EXCEPT
                         !.nodes = removeNode(index.nodes, m),
                         !.head = index.nodes[m].prev]
    /\ UNCHANGED <<triVars, quality, renderer, color, texture>>

IndexNext == IndexClipEar \/ IndexSimplifyRemove

IndexSpec == IndexInit /\ [][IndexNext]_vars

(***************************************************************************)
(* computeZOrder on its own: the keys of a box's corners and of a point    *)
(***************************************************************************)
\* Coordinates whose quantised values exercise every bit position, for the
\* box context (0, 0, ZRange) in which the scale is 1.
ZSamples == {0, 1, 2, 255, 256, 10922, 21845, ZRange - 1, ZRange}

\* Coordinates for the box context (1, 1, 7), in which the scale is ZRange / 7.
ZSmall == 1..8

ZOrderCall(lo, p, hi, minX, minY, size) ==
    [pc |-> "key", lo |-> lo, p |-> p, hi |-> hi,
     minX |-> minX, minY |-> minY, size |-> size, zlo |-> 0, zp |-> 0, zhi |-> 0]

\* A box (lo, hi) and a point p inside it, over the coordinates S.
ZOrderStart(S, minX, minY, size) ==
    /\ \E lx \in S, ly \in S :
         \E px \in {v \in S : v >= lx}, py \in {v \in S : v >= ly} :
           \E hx \in {v \in S : v >= px}, hy \in {v \in S : v >= py} :
              index = ZOrderCall(<<lx, ly>>, <<px, py>>, <<hx, hy>>, minX, minY, size)
    /\ quality = [pc |-> "none"] /\ renderer = [pc |-> "none"]
    /\ color = [pc |-> "none"] /\ texture = [pc |-> "none"]
    /\ TriIdle

ZOrderInit ==
    \/ ZOrderStart(ZSamples, 0, 0, ZRange)
    \/ ZOrderStart(ZSmall, 1, 1, 7)

\* The calls of lines 198-199 for the corners, and the key of the point.
ComputeZOrder ==
    /\ index.pc = "key"
    /\ index' = [index EXCEPT
                   !.pc = "keyed",
                   !.zlo = computeZOrder(index.lo[1], index.lo[2],
                                         index.minX, index.minY, index.size),
                   !.zp = computeZOrder(index.p[1], index.p[2],
                                        index.minX, index.minY, index.size),
                   !.zhi = computeZOrder(index.hi[1], index.hi[2],
                                         index.minX, index.minY, index.size)]
    /\ UNCHANGED <<triVars, quality, renderer, color, texture>>

ZOrderNext == ComputeZOrder

ZOrderSpec == ZOrderInit /\ [][ZOrderNext]_vars

(***************************************************************************)
(* Properties                                                              *)
(***************************************************************************)
\* How a call ended: normally or by an exception, and what it returned.
Outcome(c) == <<c.pc, c.error, c.triangles>>

\* Twice the area covered by the triangles the call has emitted.
EmittedArea == TrianglesArea(call.vertices, call.dimensions, call.triangles)

\* The polygon is below the spatial indexing threshold of triangulatePolygon.
BelowThreshold == Len(input.poly) <= IndexThreshold

\* C1: every simple polygon without holes of n vertices is triangulated into
\* exactly n - 2 triangles (an index list of length 3(n - 2)).  Fails on the
\* code: above the indexing threshold the call raises a ReferenceError.
C1_ExactTriangleCount ==
    (input.simple /\ Terminated(call))
        => (call.pc = "done" /\ Len(call.triangles) = 3 * (Len(input.poly) - 2))

\* What the code does keep of C1: the count is exact for every simple
\* polygon of at most 80 vertices.
TriangleCountBelowThreshold ==
    (input.simple /\ BelowThreshold /\ Terminated(call))
        => (call.pc = "done" /\ Len(call.triangles) = 3 * (Len(input.poly) - 2))

\* C2: for every simple polygon, with or without a hole, the call returns
\* triangles whose summed area is the expected area, so that
\* calculateTriangulationQuality is 0.  Fails on the code: every input with
\* a hole raises a ReferenceError in processHoles.
C2_QualityZero ==
    ((input.simple \/ input.holeInside) /\ Terminated(call))
        => /\ call.pc = "done"
           /\ calculateTriangulationQuality(call.vertices, call.holeIndices,
                  call.dimensions, call.triangles).num = 0

\* What the code does keep of C2: quality 0 for every simple polygon without
\* holes of at most 80 vertices.
QualityZeroBelowThreshold ==
    (input.simple /\ BelowThreshold /\ Terminated(call))
        => /\ call.pc = "done"
           /\ calculateTriangulationQuality(call.vertices, call.holeIndices,
                  call.dimensions, call.triangles).num = 0

\* C3: triangulatePolygon never ends with an exception on a hole-free buffer,
\* whatever its geometry: a stalled pass hands the ring to the next recovery
\* pass and a triangle list is returned.  Fails on the code: a stall in pass 1
\* raises a ReferenceError.
C3_NoException ==
    (input.kind = "flat" /\ Len(input.holeIndices) = 0) => call.pc # "threw"

\* C4: every call terminates: the ear loop and the simplify loop end after
\* finitely many iterations on every input.
C4_Terminates == <>Terminated(call)

\* A call that stalled in pass 0, finished simplifyPoints, and ended pass 1
\* with triangles emitted.
C4_Witness ==
    call.pc = "done" /\ call.pass = 1 /\ Len(call.triangles) > 0

\* The triangle list of a call is well formed: whole triples of vertex
\* ordinals below vertices.length / dimensions.
TrianglesWellFormed(c) ==
    /\ Len(c.triangles) % 3 = 0
    /\ \A k \in 1..Len(c.triangles) :
          /\ c.triangles[k] \in Int
          /\ 0 <= c.triangles[k]
          /\ c.triangles[k] * c.dimensions < Len(c.vertices)

IsPrefix(s, t) == Len(s) <= Len(t) /\ SubSeq(t, 1, Len(s)) = s

\* C5: in every state the triangle list is made of whole triples of vertex
\* ordinals k with 0 <= k < vertices.length / dimensions, and every step only
\* appends to it.
C5_TrianglesWellFormed ==
    /\ []TrianglesWellFormed(call)
    /\ [][IsPrefix(call.triangles, call'.triangles)]_vars

\* A call on a buffer with three coordinates per vertex that has emitted four
\* triangles.
C5_Witness ==
    call.dimensions = 3 /\ Len(call.triangles) = 12

\* C6: an outer polygon with a hole strictly inside it is triangulated to the
\* outer area minus the hole area (the 10x10 square with the 4x4 hole: 84,
\* twice that here).  Fails on the code: processHoles raises a ReferenceError.
C6_HoleArea ==
    (input.holeInside /\ Terminated(call))
        => /\ call.pc = "done"
           /\ EmittedArea = PolygonArea(call.vertices, call.holeIndices, call.dimensions)

\* C7: a polygon given with one duplicated consecutive vertex is triangulated
\* without an exception to the area of the polygon without the duplicate.
\* Fails on the code above the indexing threshold (ReferenceError).
C7_DuplicateVertex ==
    (input.dedupSimple /\ Terminated(call))
        => (call.pc = "done" /\ EmittedArea = DoubleArea(Dedup(input.poly)))

\* What the code does keep of C7: the same for buffers of at most 80 vertices.
DuplicateVertexBelowThreshold ==
    (input.dedupSimple /\ BelowThreshold /\ Terminated(call))
        => (call.pc = "done" /\ EmittedArea = DoubleArea(Dedup(input.poly)))

\* The outer range of the input: the vertices before the first hole.
OuterPoly(inp) ==
    IF Len(inp.holeIndices) > 0 THEN SubSeq(inp.poly, 1, inp.holeIndices[1])
    ELSE inp.poly

\* The outer range builds a ring of fewer than three nodes.
FewOuter(inp) ==
    /\ inp.kind = "flat"
    /\ \/ Len(OuterPoly(inp)) <= 2
       \/ Len(OuterPoly(inp)) = 3 /\ OuterPoly(inp)[1] = OuterPoly(inp)[3]

\* C8: when the outer range builds a ring of fewer than three nodes (an empty
\* buffer, 1 or 2 vertices, 3 vertices with first = last), the call raises no
\* error, emits nothing, and returns the empty list.
C8_FewVerticesEmpty ==
    FewOuter(input)
        => /\ call.pc # "threw"
           /\ call.triangles = <<>>
           /\ Terminated(call) => call.pc = "done"

\* The call on the empty buffer has returned the empty list.
C8_Witness ==
    input.kind = "flat" /\ input.vertices = <<>> /\ call.pc = "done"
    /\ call.triangles = <<>>

\* C9: a call on a buffer with d > 2 coordinates per vertex ends as the call
\* on the buffer of the first two coordinates of every vertex does, with the
\* same index list.
C9_ExtraCoordinatesIgnored ==
    (input.kind = "flat" /\ input.dimensions > 2 /\ Terminated(call) /\ Terminated(ref))
        => Outcome(call) = Outcome(ref)

\* Both calls have returned the same two or more triangles for a buffer with
\* more than two coordinates per vertex.
C9_Witness ==
    /\ input.kind = "flat" /\ input.dimensions > 2
    /\ call.pc = "done" /\ ref.pc = "done"
    /\ Len(call.triangles) >= 6 /\ call.triangles = ref.triangles

\* flattenPolygonData has returned (the call on its result has started).
Flattened == input.kind = "nested" /\ call.pc # "flatten" /\ ~FlattenThrows(input.data)

\* C10 as stated: for any sequence of rings, flattenPolygonData returns one
\* hole index per ring after the first, the number of points before it.
\* Fails: no index is pushed for a ring that follows an empty ring.
C10_FlattenAnyRings ==
    Flattened => call.holeIndices = ManualHoles(input.data)

AllRingsNonEmpty(data) == Len(data) > 0 /\ \A k \in 1..Len(data) : Len(data[k]) > 0

\* C10, amended: for a non-empty sequence of non-empty rings,
\* flattenPolygonData returns the coordinates of all points in ring order,
\* one hole index per ring after the first (the number of points before it)
\* and the tuple length of the first point; the call on its result ends as
\* the call on the buffer and hole list built by hand.
C10_FlattenNonEmptyRings ==
    (input.kind = "nested" /\ AllRingsNonEmpty(input.data) /\ call.pc # "flatten")
        => /\ call.vertices = ManualVertices(input.data)
           /\ call.holeIndices = ManualHoles(input.data)
           /\ call.dimensions = ManualDimensions(input.data)
           /\ (Terminated(call) /\ Terminated(ref)) => Outcome(call) = Outcome(ref)

\* Three non-empty rings have been flattened, with two hole indices, and the
\* call on the result and the call on the hand-built buffer have both ended.
C10_Witness ==
    /\ input.kind = "nested" /\ Len(input.data) = 3 /\ AllRingsNonEmpty(input.data)
    /\ Len(call.holeIndices) = 2 /\ call.holeIndices[2] > call.holeIndices[1]
    /\ Terminated(call) /\ Terminated(ref)

\* C11: a polygon above the indexing threshold is triangulated to the same
\* area as on the unindexed path, which for a simple polygon is the polygon's
\* area (QualityZeroBelowThreshold).  Fails on the code: the indexed path
\* raises a ReferenceError before any ear is tested.
C11_IndexedAreaAgrees ==
    (input.simple /\ ~BelowThreshold /\ Terminated(call))
        => (call.pc = "done" /\ EmittedArea = DoubleArea(input.poly))

\* The areas of C12 computed from the points: twice the expected area (the
\* outer range less the hole ranges) and twice the area of the triangles.
RangeArea(poly, first, last) == DoubleArea(SubSeq(poly, first, last))

ExpectedArea(poly, holeIndices) ==
    LET n == Len(holeIndices)
        holes == [k \in 1..n |->
                    RangeArea(poly, holeIndices[k] + 1,
                              IF k < n THEN holeIndices[k + 1] ELSE Len(poly))]
    IN  RangeArea(poly, 1, IF n > 0 THEN holeIndices[1] ELSE Len(poly))
        - SumSeq(holes, 1, n)

TriangulatedArea(poly, triangles) ==
    LET m == Len(triangles) \div 3
        areas == [k \in 1..m |->
                    DoubleArea(<<poly[triangles[3 * k - 2] + 1],
                                 poly[triangles[3 * k - 1] + 1],
                                 poly[triangles[3 * k] + 1]>>)]
    IN  SumSeq(areas, 1, m)

\* C12 as stated: the value is |triangulated - expected| / expected unless
\* both areas are zero.  Fails when the holes are larger than the outer
\* ring: the expected area is negative and the code returns the magnitude.
C12_QualityOverExpected ==
    quality.pc = "done" =>
        LET e == ExpectedArea(quality.poly, quality.holeIndices)
            t == TriangulatedArea(quality.poly, quality.triangles)
        IN  IF e = 0 /\ t = 0 THEN quality.result.num = 0
            ELSE quality.result.num * e = Abs(t - e) * quality.result.den

\* C12, amended: the value is never negative; it is 0 when both areas are
\* zero and otherwise |triangulated - expected| / |expected| (a division by
\* zero, Infinity, when only the expected area is zero).
C12_QualityOverMagnitude ==
    quality.pc = "done" =>
        LET e == ExpectedArea(quality.poly, quality.holeIndices)
            t == TriangulatedArea(quality.poly, quality.triangles)
        IN  /\ quality.result.num >= 0 /\ quality.result.den >= 0
            /\ IF e = 0 /\ t = 0
               THEN quality.result.num = 0 /\ quality.result.den > 0
               ELSE /\ quality.result.num * Abs(e) = Abs(t - e) * quality.result.den
                    /\ quality.result.num + quality.result.den > 0
                    /\ (quality.result.den = 0) <=> (e = 0)

\* getQuality has returned a non-zero deviation for a polygon whose hole is
\* smaller than its outer ring and whose triangles cover part of it.
C12_Witness ==
    /\ quality.pc = "done" /\ Len(quality.holeIndices) = 1
    /\ ExpectedArea(quality.poly, quality.holeIndices) > 0
    /\ Len(quality.triangles) = 6
    /\ quality.result.num > 0 /\ quality.result.den > 0

\* C13: a constructed WebGLRenderer owns a canvas as domElement, and after
\* setSize(w, h) the canvas has width w and height h.  Fails on the code:
\* the class creates no canvas, and setSize writes the renderer's own width
\* and height and the canvas style, never the canvas's width and height.
C13_CanvasSized ==
    (renderer.pc = "live" /\ renderer.sized # Undefined) =>
        /\ renderer.domElement # Undefined
        /\ renderer.domElement[1].width = renderer.sized[1][1]
        /\ renderer.domElement[1].height = renderer.sized[1][2]

\* C14: for every colour c, new DSRTColor().fromJSON(c.toJSON()) equals c.
\* Fails on the code: fromJSON reads only `hex`, which holds each channel
\* rounded to 8 bits.
C14_JsonRoundTrip ==
    color.pc = "read" => equals(color.d, color.c)

\* C15: isCompressedFormat is true for exactly the compressed format
\* constants, those calculateTextureSize sizes by blocks, and false for
\* every other format constant and every data type constant.  Fails on the
\* code: the test is a numeric range that misses the ETC2/EAC, ASTC and
\* BPTC formats and contains two data type constants.
C15_CompressedExactly ==
    texture.pc = "done" => (texture.result <=> texture.format \in BlockSizedFormats)

\* The nodes through which the call holds a ring at its position.
RingHandles(c) ==
    (CASE c.pc = "build" -> {c.last} \cup (IF c.ctx = "hole" THEN {c.outerNode} ELSE {})
       [] c.pc = "outerBuilt" -> {c.last}
       [] c.pc = "holeBuilt" -> {c.last, c.outerNode}
       [] c.pc = "loop" -> {c.ear, c.stopPoint}
       [] c.pc = "simplify" -> {c.current, c.end}
       [] c.pc \in {"done", "threw"} -> {c.ear}
       [] OTHER -> {}) \ {0}

\* The ring held through h is one cycle with consistent links, closed under
\* prev and next: a node unlinked from it is reached from none of its nodes.
RingLinked(nodes, h) ==
    LET ring == RingNodes(nodes, h)
    IN  /\ \A n \in ring : /\ nodes[nodes[n].prev].next = n
                            /\ nodes[nodes[n].next].prev = n
        /\ Iter(NextOf(nodes), Cardinality(ring), h) = h
        /\ RingNodesBack(nodes, h) = ring

\* C16: at every point of a call, after any sequence of addNode, removeNode,
\* simplifyPoints removals and ear removals, every ring the call holds has
\* next(prev(n)) = n and prev(next(n)) = n for all its nodes, is a single
\* cycle through next, and reaches no unlinked node through prev or next.
C16_RingLinked ==
    \A h \in RingHandles(call) : RingLinked(call.nodes, h)

\* A ring in pass 1 that was built by addNode and has lost nodes to ear
\* removals and to simplifyPoints (or the closing duplicate).
C16_Witness ==
    /\ call.pc = "loop" /\ call.pass = 1 /\ Len(call.triangles) >= 3
    /\ Cardinality(RingNodes(call.nodes, call.ear)) + Len(call.triangles) \div 3
           < Len(call.nodes)

\* The signed area of line 305 on the buffer's vertices with ordinals ia, ib
\* and ic.  A node keeps the coordinates it was created with, so this is the
\* triangleArea(prev, ear, next) of the moment the triple was pushed.
EmittedTriangleArea(c, k) ==
    LET X(o) == At(c.vertices, o * c.dimensions)
        Y(o) == At(c.vertices, o * c.dimensions + 1)
        ia == c.triangles[3 * k - 2]
        ib == c.triangles[3 * k - 1]
        ic == c.triangles[3 * k]
    IN  (Y(ib) - Y(ia)) * (X(ic) - X(ib)) - (X(ib) - X(ia)) * (Y(ic) - Y(ib))

\* C17: every triangle in the output has strictly negative signed area
\* triangleArea(prev, ear, next): no reflex or collinear candidate is emitted.
C17_EmittedAreaNegative ==
    \A k \in 1..(Len(call.triangles) \div 3) : EmittedTriangleArea(call, k) < 0

\* Ears have been emitted and the scan stands at a candidate of a ring of more
\* than two nodes whose signed area is not negative.
C17_Witness ==
    /\ call.pc = "loop" /\ Len(call.triangles) >= 3
    /\ call.nodes[call.ear].prev # call.nodes[call.ear].next
    /\ triangleArea(call.nodes, call.nodes[call.ear].prev, call.ear,
                    call.nodes[call.ear].next) >= 0

\* The orientation of the node p against the directed edge from q to r: the
\* signed area of (q, r, p) in the sign convention of triangleArea.
NodeOrient(nodes, q, r, p) ==
    (nodes[r].y - nodes[q].y) * (nodes[p].x - nodes[r].x)
  - (nodes[r].x - nodes[q].x) * (nodes[p].y - nodes[r].y)

\* p lies in the triangle (a, b, c) of negative signed area: in its interior,
\* or in the interior or on an edge or a corner.
NodeStrictlyInside(nodes, a, b, c, p) ==
    NodeOrient(nodes, a, b, p) < 0 /\ NodeOrient(nodes, b, c, p) < 0 /\ NodeOrient(nodes, c, a, p) < 0

InsideOrOnBoundary(nodes, a, b, c, p) ==
    NodeOrient(nodes, a, b, p) <= 0 /\ NodeOrient(nodes, b, c, p) <= 0 /\ NodeOrient(nodes, c, a, p) <= 0

LocalArea(nodes, p) == triangleArea(nodes, nodes[p].prev, p, nodes[p].next)

\* The ring nodes other than the candidate and its two neighbours.
OtherRingNodes(nodes, ear) ==
    RingNodes(nodes, ear) \ {nodes[ear].prev, ear, nodes[ear].next}

\* The scan stands at a candidate of a ring of more than two nodes.
AtCandidate ==
    call.pc = "loop" /\ call.nodes[call.ear].prev # call.nodes[call.ear].next

\* C18 as stated: isValidEar accepts exactly when the signed area is negative
\* and no other ring node lies strictly inside the triangle, away from
\* prev's position, with a local triangle that is not reflex (signed area not
\* positive).  Fails on the code, which counts nodes on the boundary.
C18_AcceptsUnlessStrictlyInside ==
    AtCandidate =>
        LET a == call.nodes[call.ear].prev
            c == call.nodes[call.ear].next
        IN  isValidEar(call.nodes, call.ear)
              <=> /\ triangleArea(call.nodes, a, call.ear, c) < 0
                  /\ \A p \in OtherRingNodes(call.nodes, call.ear) :
                        ~ /\ NodeStrictlyInside(call.nodes, a, call.ear, c, p)
                          /\ ~pointsEqual(call.nodes, p, a)
                          /\ LocalArea(call.nodes, p) <= 0

\* C18, amended: isValidEar accepts exactly when the signed area is negative
\* and no other ring node lies inside the triangle or on its boundary, away
\* from prev's position, with a local triangle of non-negative signed area
\* (reflex or collinear).
C18_AcceptsUnlessInsideOrOnBoundary ==
    AtCandidate =>
        LET a == call.nodes[call.ear].prev
            c == call.nodes[call.ear].next
        IN  isValidEar(call.nodes, call.ear)
              <=> /\ triangleArea(call.nodes, a, call.ear, c) < 0
                  /\ \A p \in OtherRingNodes(call.nodes, call.ear) :
                        ~ /\ InsideOrOnBoundary(call.nodes, a, call.ear, c, p)
                          /\ ~pointsEqual(call.nodes, p, a)
                          /\ LocalArea(call.nodes, p) >= 0

\* A candidate of negative signed area is rejected although no ring node lies
\* strictly inside its triangle: the node that blocks it lies on the boundary.
C18_Witness ==
    /\ AtCandidate
    /\ triangleArea(call.nodes, call.nodes[call.ear].prev, call.ear,
                    call.nodes[call.ear].next) < 0
    /\ ~isValidEar(call.nodes, call.ear)
    /\ \A p \in OtherRingNodes(call.nodes, call.ear) :
          ~NodeStrictlyInside(call.nodes, call.nodes[call.ear].prev, call.ear,
                          call.nodes[call.ear].next, p)

\* The node a call inside triangulateLinkedList or simplifyPoints holds its
\* ring by, and the ring's nodes.
RingHandle(c) == IF c.pc = "simplify" THEN c.current ELSE c.ear

CurrentRing(c) == RingNodes(c.nodes, RingHandle(c))

\* One step of the call: a successful ear step, a removal by simplifyPoints,
\* or any other step of triangulateLinkedList and simplifyPoints.
EarStepTaken ==
    /\ call.pc = "loop" /\ call' # call
    /\ call.nodes[call.ear].prev # call.nodes[call.ear].next
    /\ isValidEar(call.nodes, call.ear)

SimplifyRemovalTaken ==
    call.pc = "simplify" /\ call' # call /\ SimplifyRemoves(call)

OtherRingStepTaken ==
    /\ call.pc \in {"loop", "simplify"} /\ call' # call
    /\ ~EarStepTaken /\ ~SimplifyRemovalTaken

\* What the three kinds of step do to the output and to the ring.
EarStepEffect ==
    LET prev == call.nodes[call.ear].prev
        next == call.nodes[call.ear].next
    IN  /\ call'.triangles = call.triangles
              \o <<call.nodes[prev].i, call.nodes[call.ear].i, call.nodes[next].i>>
        /\ CurrentRing(call') = CurrentRing(call) \ {call.ear}
        /\ Cardinality(CurrentRing(call')) = Cardinality(CurrentRing(call)) - 1
        /\ call'.pc = "loop" /\ call'.ear = call.nodes[next].next
        /\ \A m \in CurrentRing(call') :
              /\ m # next => call'.nodes[m].prev = call.nodes[m].prev
              /\ m # prev => call'.nodes[m].next = call.nodes[m].next

SimplifyRemovalEffect ==
    /\ call'.triangles = call.triangles
    /\ CurrentRing(call') = CurrentRing(call) \ {call.current}
    /\ Cardinality(CurrentRing(call')) = Cardinality(CurrentRing(call)) - 1

OtherRingStepEffect ==
    /\ call'.triangles = call.triangles
    /\ CurrentRing(call') = CurrentRing(call)

\* C19: a successful ear step appends exactly the triple (prev.i, ear.i,
\* next.i), unlinks exactly the ear and resumes at next.next; a removal by
\* simplifyPoints takes exactly one node and no triangle; every other step
\* leaves triangles and ring alone.  So triangles emitted + ring nodes +
\* nodes removed by simplifyPoints stays at the size of the ring that
\* triangulateLinkedList started from.
C19_RingAccounting ==
    [][/\ EarStepTaken => EarStepEffect
       /\ SimplifyRemovalTaken => SimplifyRemovalEffect
       /\ OtherRingStepTaken => OtherRingStepEffect]_vars

\* Pass 1 scans a ring that has given up an ear and, its first and last
\* vertex being apart, a node to simplifyPoints, and still has more than two
\* nodes.
C19_Witness ==
    /\ call.pc = "loop" /\ call.pass = 1 /\ Len(call.triangles) >= 3
    /\ Cardinality(CurrentRing(call)) >= 3
    /\ ~pointsEqual(call.nodes, 1, Len(call.nodes))
    /\ Cardinality(CurrentRing(call)) + Len(call.triangles) \div 3 < Len(call.nodes)

\* The scan is back at stopPoint after a full traversal without an ear, on a
\* ring of more than two nodes (lines 133-135).
PassStalled(c) ==
    /\ c.pc = "loop"
    /\ c.nodes[c.ear].prev # c.nodes[c.ear].next
    /\ ~EarTest(c)
    /\ c.nodes[c.ear].next = c.stopPoint

\* C20: the passes of one call escalate in the order 0, 1, 2, split: a pass
\* other than 0 is entered only by the stall of the pass before it, a stalled
\* pass 0 or 1 is followed by the next pass on the remaining ring, the pass
\* number never decreases, and the spatial index is built (the call to
\* buildSpatialIndex) only on entry to pass 0.  Fails on the code: a stall of
\* pass 1 ends the call with a ReferenceError and pass 2 is never entered.
C20_PassesEscalate ==
    [][call' # call =>
         /\ call'.pass >= call.pass
         /\ call'.pass # call.pass =>
               /\ call'.pass = call.pass + 1
               /\ PassStalled(call) \/ call.pc = "simplify"
         /\ (PassStalled(call) /\ call.pass = 0) => call'.pc = "simplify"
         /\ (PassStalled(call) /\ call.pass = 1) =>
               (call'.pc = "loop" /\ call'.pass = 2)
         /\ (call'.pc = "threw" /\ call.pc # "threw"
                /\ call'.error = "ReferenceError: buildSpatialIndex") =>
               (call.pc = "outerBuilt" /\ call'.pass = 0)]_vars

\* The ring held by node h has no removable node: no node that is not steiner
\* equals its next node or is collinear with its two neighbours.
RingSimplified(nodes, h) ==
    \A m \in RingNodes(nodes, h) :
        ~nodes[m].steiner =>
            /\ ~pointsEqual(nodes, m, nodes[m].next)
            /\ triangleArea(nodes, nodes[m].prev, m, nodes[m].next) # 0

\* C21: when simplifyPoints returns, the node it returns is linked into its
\* ring, and if that ring has two or more nodes, no node of it that is not
\* steiner equals its next node or has a zero triangleArea(prev, node, next).
C21_SimplifyRemovesAll ==
    [][(call.pc = "simplify" /\ call'.pc # "simplify") =>
          /\ call'.pc = "loop" /\ call'.ear = call'.end
          /\ RingLinked(call'.nodes, call'.ear)
          /\ Cardinality(RingNodes(call'.nodes, call'.ear)) >= 2 =>
                RingSimplified(call'.nodes, call'.ear)]_vars

\* simplifyPoints has just returned a ring of three or more nodes from which
\* it removed a node: pass 1 stands at its first candidate, one ear was
\* emitted in pass 0 and the first and last vertex of the input are apart.
C21_Witness ==
    /\ call.pc = "loop" /\ call.pass = 1 /\ call.ear = call.stopPoint
    /\ call.ear = call.end /\ Len(call.triangles) = 3
    /\ ~pointsEqual(call.nodes, 1, Len(call.nodes))
    /\ Cardinality(RingNodes(call.nodes, call.ear)) >= 3
    /\ Cardinality(RingNodes(call.nodes, call.ear)) + 1 < Len(call.nodes)
    /\ RingSimplified(call.nodes, call.ear)

\* The shoelace sum of calculateSignedArea taken over the ring of node h,
\* followed through next: each node with its predecessor.
RingShoelace(nodes, h) ==
    LET n == Cardinality(RingNodes(nodes, h))
        at == [j \in 1..n |-> Iter(NextOf(nodes), j - 1, h)]
        terms == [j \in 1..n |->
                    (nodes[nodes[at[j]].prev].x - nodes[at[j]].x)
                      * (nodes[at[j]].y + nodes[nodes[at[j]].prev].y)]
    IN  SumSeq(terms, 1, n)

\* The shoelace sum of the range createLinkedList was last called on.
RangeShoelace(c) ==
    calculateSignedArea(c.vertices, c.listStart, c.listEnd, c.dimensions)

\* C22: the ring createLinkedList returns has the requested winding whatever
\* the winding of the range: its shoelace sum through next is the magnitude
\* of the range's sum (>= 0) for the outer ring (clockwise true) and minus
\* that magnitude (<= 0) for a hole ring (clockwise false), so a range and
\* its reversal give rings of the same orientation.
C22_RequestedWinding ==
    /\ (call.pc = "outerBuilt" /\ call.last # 0) =>
          RingShoelace(call.nodes, call.last) = Abs(RangeShoelace(call))
    /\ (call.pc = "holeBuilt" /\ call.last # 0) =>
          RingShoelace(call.nodes, call.last) = -Abs(RangeShoelace(call))

\* A hole ring has been built backward from a range of positive shoelace
\* sum, next to an outer ring of positive shoelace sum.
C22_Witness ==
    /\ call.pc = "holeBuilt" /\ call.last # 0 /\ ~call.forward
    /\ RangeShoelace(call) > 0
    /\ RingShoelace(call.nodes, call.last) < 0
    /\ RingShoelace(call.nodes, call.outerNode) > 0

\* createLinkedList has returned a node; the nodes it inserted for its range,
\* the first and the last of them.
ListBuilt == call.pc \in {"outerBuilt", "holeBuilt"} /\ call.last # 0

FirstInserted(c) == c.listStart \div c.dimensions + 1

LastInserted(c) == Len(c.nodes)

Inserted(c) == FirstInserted(c)..LastInserted(c)

\* The neighbour of the returned node across the closing edge, the edge
\* between the last and the first node in insertion order.
ClosingNeighbour(c) ==
    IF c.last = LastInserted(c) THEN c.nodes[c.last].next ELSE c.nodes[c.last].prev

\* C23 as stated: when the first and last inserted nodes coincide exactly one
\* of them is dropped, and a returned ring of two or more nodes has no
\* zero-length closing edge.  Fails on the code when the range repeats its
\* first vertex twice at its end: one copy is dropped and one stays.
C23_NoZeroLengthClosingEdge ==
    ListBuilt =>
        LET f == FirstInserted(call)
            l == LastInserted(call)
            ring == RingNodes(call.nodes, call.last)
        IN  /\ (f # l /\ pointsEqual(call.nodes, f, l)) =>
                  (ring = Inserted(call) \ {f} \/ ring = Inserted(call) \ {l})
            /\ Cardinality(ring) >= 2 =>
                  ~pointsEqual(call.nodes, call.last, ClosingNeighbour(call))

\* C23, amended: when the first and last inserted nodes coincide, exactly the
\* last inserted node is dropped and the first is returned; otherwise no node
\* is dropped and the last is returned.  The closing edge of a returned ring
\* of two or more nodes has zero length exactly when a node was dropped and
\* the node inserted before it coincides with the first one too.
C23_DropsOneClosingDuplicate ==
    ListBuilt =>
        LET f == FirstInserted(call)
            l == LastInserted(call)
            ring == RingNodes(call.nodes, call.last)
            dup == f # l /\ pointsEqual(call.nodes, f, l)
        IN  /\ dup => (ring = Inserted(call) \ {l} /\ call.last = f)
            /\ ~dup => (ring = Inserted(call) /\ call.last = l)
            /\ Cardinality(ring) >= 2 =>
                  (pointsEqual(call.nodes, call.last, ClosingNeighbour(call))
                     <=> (dup /\ pointsEqual(call.nodes, f, l - 1)))

\* The last inserted node coincided with the first and was dropped, and the
\* returned ring of three nodes or more has a closing edge of non-zero length.
C23_Witness ==
    /\ ListBuilt
    /\ FirstInserted(call) # LastInserted(call)
    /\ pointsEqual(call.nodes, FirstInserted(call), LastInserted(call))
    /\ call.last = FirstInserted(call)
    /\ Cardinality(RingNodes(call.nodes, call.last)) >= 3
    /\ LastInserted(call) \notin RingNodes(call.nodes, call.last)
    /\ ~pointsEqual(call.nodes, call.last, call.nodes[call.last].prev)

\* The Z-order links as functions that keep null (0) at null, and the nodes
\* of the Z-order list that node h is threaded into.
NextZOf(nodes) == [m \in 0..Len(nodes) |-> IF m = 0 THEN 0 ELSE nodes[m].nextZ]
PrevZOf(nodes) == [m \in 0..Len(nodes) |-> IF m = 0 THEN 0 ELSE nodes[m].prevZ]

ZListNodes(nodes, h) ==
    ({Iter(NextZOf(nodes), j, h) : j \in 0..Len(nodes)}
       \cup {Iter(PrevZOf(nodes), j, h) : j \in 0..Len(nodes)}) \ {0}

\* C24: after any sequence of ear removals and simplifyPoints removals on an
\* indexed ring, the Z-order list is a consistent doubly-linked list (a
\* node's Z neighbours point back at it) that holds every node still in the
\* ring and no removed node.
C24_ZListRepaired ==
    index.pc = "ring" =>
        \A m \in RingNodes(index.nodes, index.head) :
            /\ index.nodes[m].prevZ # 0 => index.nodes[index.nodes[m].prevZ].nextZ = m
            /\ index.nodes[m].nextZ # 0 => index.nodes[index.nodes[m].nextZ].prevZ = m
            /\ ZListNodes(index.nodes, m) = RingNodes(index.nodes, index.head)

\* A node that had a Z-order neighbour on either side has been removed from
\* a ring that still has three nodes or more.
C24_Witness ==
    /\ index.pc = "ring"
    /\ Cardinality(RingNodes(index.nodes, index.head)) >= 3
    /\ \E m \in 1..Len(index.nodes) :
          /\ m \notin RingNodes(index.nodes, index.head)
          /\ index.nodes[m].prevZ # 0 /\ index.nodes[m].nextZ # 0

EarMinZ(ix, ear) ==
    LET a == ix.nodes[ear].prev
        c == ix.nodes[ear].next
    IN  computeZOrder(Min2(ix.nodes[a].x, Min2(ix.nodes[ear].x, ix.nodes[c].x)),
                      Min2(ix.nodes[a].y, Min2(ix.nodes[ear].y, ix.nodes[c].y)),
                      ix.minX, ix.minY, ix.size)

EarMaxZ(ix, ear) ==
    LET a == ix.nodes[ear].prev
        c == ix.nodes[ear].next
    IN  computeZOrder(Max2(ix.nodes[a].x, Max2(ix.nodes[ear].x, ix.nodes[c].x)),
                      Max2(ix.nodes[a].y, Max2(ix.nodes[ear].y, ix.nodes[c].y)),
                      ix.minX, ix.minY, ix.size)

BitOf(v, k) == (v \div (2 ^ k)) % 2

KeyBits == {k \in 0..30 : 2 ^ k <= ZRange}

RECURSIVE InterleaveFrom(_, _, _)
InterleaveFrom(qx, qy, k) ==
    IF k \notin KeyBits THEN 0
    ELSE (BitOf(qx, k) + 2 * BitOf(qy, k)) * (4 ^ k) + InterleaveFrom(qx, qy, k + 1)

Interleave(qx, qy) == InterleaveFrom(qx, qy, 0)

\* C26: computeZOrder returns the bit interleaving of the quantised
\* coordinates (bit k of x at bit 2k, bit k of y at bit 2k+1), and the key of
\* a point inside a box lies between the keys of the box's minimum and
\* maximum corners.
C26_KeyInterleavesBits ==
    index.pc = "keyed" =>
        /\ index.zp = Interleave(Quantize(index.p[1], index.minX, index.size),
                                 Quantize(index.p[2], index.minY, index.size))
        /\ index.zlo <= index.zp
        /\ index.zp <= index.zhi

\* The keys of a point strictly inside a box, whose quantised coordinates
\* differ from each other and from the coordinates themselves.
C26_Witness ==
    /\ index.pc = "keyed"
    /\ index.lo[1] < index.p[1] /\ index.p[1] < index.hi[1]
    /\ index.lo[2] < index.p[2] /\ index.p[2] < index.hi[2]
    /\ index.zlo < index.zp /\ index.zp < index.zhi
    /\ Quantize(index.p[1], index.minX, index.size) # index.p[1]
    /\ Quantize(index.p[1], index.minX, index.size)
          > Quantize(index.p[2], index.minY, index.size)
    /\ Quantize(index.p[2], index.minY, index.size) > 255

\* The shoelace sum of the ring the call still holds: none before the loop
\* is entered with a ring, the ring of the scan or of simplifyPoints after.
RemainingShoelace(c) ==
    IF c.pc = "simplify" THEN RingShoelace(c.nodes, c.current)
    ELSE IF c.ear # 0 THEN RingShoelace(c.nodes, c.ear)
    ELSE IF c.last # 0 THEN RingShoelace(c.nodes, c.last)
    ELSE 0

\* C27: on a hole-free buffer below the indexing threshold, in every state of
\* pass 0 and pass 1 and after a normal return, the absolute doubled areas of
\* the triangles emitted so far plus the shoelace sum of the remaining ring
\* make the shoelace sum of the initial ring, |signedArea(outer)|; after a
\* normal return the triangles alone do.
C27_AreaConserved ==
    (Len(call.holeIndices) = 0 /\ call.size = 0
       /\ call.pc \in {"loop", "simplify", "done"}) =>
        /\ EmittedArea + RemainingShoelace(call)
              = Abs(calculateSignedArea(call.vertices, 0, Len(call.vertices),
                                        call.dimensions))
        /\ call.pc = "done" =>
              EmittedArea = Abs(calculateSignedArea(call.vertices, 0, Len(call.vertices),
                                                    call.dimensions))

\* Pass 1 scans what is left of a ring that has given up an ear of non-zero
\* area and a node to simplifyPoints, and the rest has a shoelace sum other
\* than zero.
C27_Witness ==
    /\ call.pc = "loop" /\ call.pass = 1 /\ Len(call.holeIndices) = 0
    /\ EmittedArea > 0
    /\ RemainingShoelace(call) # 0
    /\ ~pointsEqual(call.nodes, 1, Len(call.nodes))
    /\ Cardinality(RingNodes(call.nodes, call.ear)) + Len(call.triangles) \div 3
          < Len(call.nodes)

\* The number n of vertices of the buffer and the number of triples emitted.
VertexCount(c) == Len(c.vertices) \div c.dimensions
TripleCount(c) == Len(c.triangles) \div 3

\* C28: on a hole-free buffer of n vertices, whatever its geometry, the
\* number of triangles emitted so far never exceeds max(0, n - 2).
C28_TriangleCountBound ==
    (call.dimensions > 0 /\ Len(call.holeIndices) = 0) =>
        TripleCount(call) <= Max2(0, VertexCount(call) - 2)

\* A call has returned with the bound met: n - 2 triangles out of n >= 4
\* vertices, and the two nodes no ear was cut from are what is left of the
\* ring.
C28_Witness ==
    /\ call.pc = "done" /\ Len(call.holeIndices) = 0
    /\ VertexCount(call) >= 4
    /\ TripleCount(call) = VertexCount(call) - 2
    /\ call.ear # 0
    /\ Cardinality(RingNodes(call.nodes, call.ear)) = 2

\* The ordinals of the k-th emitted triple.
TripleAt(c, k) == {c.triangles[3 * k - 2], c.triangles[3 * k - 1], c.triangles[3 * k]}

\* C29: on a hole-free buffer every emitted triple (ia, ib, ic) is made of
\* three pairwise distinct vertex ordinals.
C29_DistinctCorners ==
    Len(call.holeIndices) = 0 =>
        \A k \in 1..(Len(call.triangles) \div 3) :
            Cardinality(TripleAt(call, k)) = 3

\* Two ears have been cut off a hole-free ring, the second across the edge
\* the first left behind: the two triples share two ordinals and each has
\* three.
C29_Witness ==
    /\ Len(call.holeIndices) = 0
    /\ Len(call.triangles) >= 6
    /\ Cardinality(TripleAt(call, 1)) = 3
    /\ Cardinality(TripleAt(call, 2)) = 3
    /\ Cardinality(TripleAt(call, 1) \cap TripleAt(call, 2)) = 2

====
